---------------------------- MODULE Spec2Model ----------------------------
(***************************************************************************)
(* A model of the thread and execution core of Doppio (src/src/threading.ts): *)
(* the thread pool and its round-robin scheduler, the thread status state   *)
(* machine, the park/unpark balance, the per-thread call stack of bytecode,  *)
(* native and internal frames, and the thread exit procedure.               *)
(*                                                                         *)
(* The host is single-threaded: one JavaScript callback runs at a time.     *)
(* A callback is one action of the model, with one exception: the thread    *)
(* execution loop (JVMThread.run) is entered inside a callback and runs one *)
(* frame per action while the variable loop names the thread; no other      *)
(* callback is enabled until the loop has returned.                         *)
(*                                                                         *)
(* The model is of the debug build: assert(...) throws, the exception       *)
(* unwinds the whole callback (field thrown of the state record), and the   *)
(* state written before the throw stays (variable assertFailed records it). *)
(***************************************************************************)
EXTENDS Integers, Sequences, FiniteSets, TLC

(***************************************************************************)
(* Bounds of the model.                                                    *)
(***************************************************************************)
NumThreads == 3
MaxPending == 3
PoolSize == 2
MaxSamples == 4
MaxExitSamples == 3
MaxRounds == 9
MaxParkCalls == 2
MaxCalls == 2
MaxRequests == 2
MaxRRPending == 8
MaxDrift == 2
ParkSlice == 6
MaxFrameSamples == 6
MaxDepth == 4
MaxUnwindSamples == 3
MaxShutdownSamples == 8
MaxSlotRuns == 9
\* Callbacks queued at once where threads contend for a method lock.
MaxSyncPending == 2
\* Calls of throwNewException.
MaxNewCalls == 2
\* Handlers of a drawn exception handler table.
MaxHandlers == 2
\* The countdown the source starts at 10000 (threading.ts line 22) starts
\* here, so that a responsiveness yield happens within the bounds.
InitialMaxMethodResumes == 2

NULL == 0
Threads == 1 .. NumThreads
\* The Java object a thread is constructed with has the thread's number as
\* its ref; SpareObj is the object setJVMObject installs.
SpareObj == NumThreads + 1
Objects == 1 .. SpareObj

\* enums.ThreadStatus
Statuses ==
  {"NEW", "RUNNABLE", "RUNNING", "BLOCKED", "UNINTERRUPTABLY_BLOCKED",
   "WAITING", "TIMED_WAITING", "ASYNC_WAITING", "PARKED", "TERMINATED"}

\* The value of java/lang/Thread/threadStatus: rawSetStatus starts from 0
\* ("ZERO": no flag, which is also what a newly allocated Java object holds)
\* and ors in one enums.JVMTIThreadState flag.
JVMTIProjection(st) ==
  CASE st = "NEW" -> "ALIVE"
    [] st \in {"RUNNING", "RUNNABLE"} -> "RUNNABLE"
    [] st \in {"BLOCKED", "UNINTERRUPTABLY_BLOCKED"} -> "BLOCKED_ON_MONITOR_ENTER"
    [] st \in {"WAITING", "ASYNC_WAITING", "PARKED"} -> "WAITING_INDEFINITELY"
    [] st = "TIMED_WAITING" -> "WAITING_WITH_TIMEOUT"
    [] st = "TERMINATED" -> "TERMINATED"
    [] OTHER -> "RUNNABLE"

\* validTransitions: the pairs (old, new) the table holds.
ValidTransitions ==
  {<<"NEW", "RUNNABLE">>, <<"NEW", "ASYNC_WAITING">>, <<"NEW", "TERMINATED">>,
   <<"ASYNC_WAITING", "RUNNABLE">>, <<"ASYNC_WAITING", "TERMINATED">>,
   <<"BLOCKED", "RUNNABLE">>,
   <<"PARKED", "RUNNABLE">>,
   <<"RUNNABLE", "RUNNING">>, <<"RUNNABLE", "ASYNC_WAITING">>,
   <<"RUNNING", "RUNNABLE">>, <<"RUNNING", "ASYNC_WAITING">>,
   <<"RUNNING", "TERMINATED">>, <<"RUNNING", "BLOCKED">>,
   <<"RUNNING", "WAITING">>, <<"RUNNING", "TIMED_WAITING">>,
   <<"RUNNING", "PARKED">>,
   <<"TERMINATED", "NEW">>, <<"TERMINATED", "RUNNABLE">>,
   <<"TERMINATED", "ASYNC_WAITING">>,
   <<"TIMED_WAITING", "RUNNABLE">>, <<"TIMED_WAITING", "UNINTERRUPTABLY_BLOCKED">>,
   <<"UNINTERRUPTABLY_BLOCKED", "RUNNABLE">>,
   <<"WAITING", "RUNNABLE">>, <<"WAITING", "UNINTERRUPTABLY_BLOCKED">>}

\* A validation that lets a thread of any status be terminated.
ValidateOrTerminated(oldStatus, newStatus) ==
  <<oldStatus, newStatus>> \in ValidTransitions \/ newStatus = "TERMINATED"

\* [DEBUG] validateThreadTransition
ValidateThreadTransition(oldStatus, newStatus) ==
  <<oldStatus, newStatus>> \in ValidTransitions

VARIABLES
  \* ThreadPool
  threads,             \* the pool's list of threads, in order
  runningThread,       \* the running thread, or NULL
  runningThreadIndex,
  parkCounts,          \* function from the refs that have a count to the count
  \* JVMThread, per thread
  created,             \* the threads constructed so far
  status, stack, monitor, immortal, jvmThreadObj,
  \* Java Thread objects, per object
  threadStatus,        \* java/lang/Thread/threadStatus
  daemon,              \* java/lang/Thread/daemon
  \* Intrinsic monitors of the Java objects, per object
  monOwner, monCount, monBlocked,
  \* module-level counters of threading.ts
  maxMethodResumes, methodResumesLeft, numSamples,
  \* the host
  pending,             \* setImmediate callbacks not yet run, oldest first
  loop,                \* the thread whose execution loop is active, or NULL
  jvmShutdown,         \* what jvm.isShutdown() answers
  assertFailed,        \* an assertion has thrown in some callback
  \* what the pool did to its collaborators
  exitCalls, emptyCalls,
  ioPending,           \* the threads whose native has an asynchronous operation outstanding
  loader,              \* the class loader: classes resolved, resolutions asked for
  \* observations the properties read
  obs, hist

vars ==
  <<threads, runningThread, runningThreadIndex, parkCounts, created, status,
    stack, monitor, immortal, jvmThreadObj, threadStatus, daemon, monOwner,
    monCount, monBlocked, maxMethodResumes, methodResumesLeft, numSamples,
    pending, loop, jvmShutdown, assertFailed, exitCalls, emptyCalls, ioPending,
    loader, obs, hist>>

\* The whole state as one record, so that the calls a callback makes compose.
\* thrown: an exception is unwinding the callback; ret: what the last call
\* returned; pick: the thread Math.random favours in appointNewOwner.
Cur ==
  [threads |-> threads, runningThread |-> runningThread,
   runningThreadIndex |-> runningThreadIndex, parkCounts |-> parkCounts,
   created |-> created, status |-> status, stack |-> stack,
   monitor |-> monitor, immortal |-> immortal, jvmThreadObj |-> jvmThreadObj,
   threadStatus |-> threadStatus, daemon |-> daemon, monOwner |-> monOwner,
   monCount |-> monCount, monBlocked |-> monBlocked,
   maxMethodResumes |-> maxMethodResumes,
   methodResumesLeft |-> methodResumesLeft, numSamples |-> numSamples,
   pending |-> pending, loop |-> loop, jvmShutdown |-> jvmShutdown,
   exitCalls |-> exitCalls, emptyCalls |-> emptyCalls,
   ioPending |-> ioPending, loader |-> loader, obs |-> obs,
   hist |-> hist, thrown |-> FALSE, ret |-> FALSE, pick |-> NULL,
   note |-> "none"]

\* The end of a callback: the state it leaves. An exception that reached the
\* host ends the execution loop it crossed.
Commit(p) ==
  /\ threads' = p.threads
  /\ runningThread' = p.runningThread
  /\ runningThreadIndex' = p.runningThreadIndex
  /\ parkCounts' = p.parkCounts
  /\ created' = p.created
  /\ status' = p.status
  /\ stack' = p.stack
  /\ monitor' = p.monitor
  /\ immortal' = p.immortal
  /\ jvmThreadObj' = p.jvmThreadObj
  /\ threadStatus' = p.threadStatus
  /\ daemon' = p.daemon
  /\ monOwner' = p.monOwner
  /\ monCount' = p.monCount
  /\ monBlocked' = p.monBlocked
  /\ maxMethodResumes' = p.maxMethodResumes
  /\ methodResumesLeft' = p.methodResumesLeft
  /\ numSamples' = p.numSamples
  /\ pending' = p.pending
  /\ loop' = IF p.thrown THEN NULL ELSE p.loop
  /\ jvmShutdown' = p.jvmShutdown
  /\ assertFailed' = (assertFailed \/ p.thrown)
  /\ exitCalls' = p.exitCalls
  /\ emptyCalls' = p.emptyCalls
  /\ ioPending' = p.ioPending
  /\ loader' = p.loader
  /\ obs' = p.obs
  /\ hist' = p.hist

(***************************************************************************)
(* Values, methods and frames.                                             *)
(***************************************************************************)
\* JavaScript values as the natives and opcodes hand them over.
UNDEFINED == "undefined"
JSNULL == "null"

\* enums.OpCode: the opcodes scheduleResume tells apart, and the others the
\* models' methods use.
InvokeInterfaceOps == {"INVOKEINTERFACE", "INVOKEINTERFACE_FAST"}
InvokeOps ==
  {"INVOKESPECIAL", "INVOKESTATIC", "INVOKEVIRTUAL", "INVOKESTATIC_FAST",
   "INVOKENONVIRTUAL_FAST", "INVOKEVIRTUAL_FAST", "INVOKEHANDLE", "INVOKEBASIC",
   "LINKTOSPECIAL", "LINKTOVIRTUAL", "INVOKEDYNAMIC", "INVOKEDYNAMIC_FAST"}

\* methods.Method, as far as the core reads it: the methods the modelled
\* programs run. code maps a pc to the opcode there.
MethodInfo(m) ==
  CASE m = "main" ->
         [native |-> FALSE, sync |-> FALSE, returnType |-> "V",
          code |-> (0 :> "INVOKESTATIC" @@ 3 :> "IFEQ" @@ 6 :> "RETURN")]
    [] m = "locker" ->
         [native |-> FALSE, sync |-> FALSE, returnType |-> "V",
          code |-> (0 :> "MONITORENTER" @@ 1 :> "INVOKESTATIC" @@ 4 :> "MONITOREXIT"
                    @@ 5 :> "RETURN")]
    [] m = "caller" ->
         [native |-> FALSE, sync |-> FALSE, returnType |-> "V",
          code |-> (0 :> "GOTO" @@ 12 :> "INVOKEVIRTUAL" @@ 15 :> "INVOKEINTERFACE"
                    @@ 20 :> "INVOKEDYNAMIC" @@ 23 :> "INVOKEINTERFACE_FAST"
                    @@ 28 :> "POP" @@ 29 :> "RETURN")]
    [] m = "natV" -> [native |-> TRUE, sync |-> FALSE, returnType |-> "V", code |-> <<>>]
    [] m = "natI" -> [native |-> TRUE, sync |-> FALSE, returnType |-> "I", code |-> <<>>]
    [] m = "natZ" -> [native |-> TRUE, sync |-> FALSE, returnType |-> "Z", code |-> <<>>]
    [] m = "natJ" -> [native |-> TRUE, sync |-> FALSE, returnType |-> "J", code |-> <<>>]
    [] m = "exit" -> [native |-> TRUE, sync |-> FALSE, returnType |-> "V", code |-> <<>>]
    [] m \in {"outer", "lateCatch", "catchE", "catchF", "catchAny", "drawn"} ->
         [native |-> FALSE, sync |-> FALSE, returnType |-> "V",
          code |-> (0 :> "INVOKESTATIC" @@ 3 :> "RETURN" @@ 6 :> "POP" @@ 7 :> "RETURN")]
    [] m = "syncM" ->
         [native |-> FALSE, sync |-> TRUE, returnType |-> "V",
          code |-> (0 :> "INVOKESTATIC" @@ 3 :> "RETURN")]
    [] m = "init" ->
         [native |-> FALSE, sync |-> FALSE, returnType |-> "V",
          code |-> (0 :> "INVOKESTATIC" @@ 3 :> "RETURN")]
    [] m = "dispatchUncaughtException" ->
         [native |-> FALSE, sync |-> FALSE, returnType |-> "V", code |-> (0 :> "RETURN")]

\* methodLock(thread, frame) of the modelled synchronized methods: the
\* monitor of the spare object.
MethodLock(m) == SpareObj

\* The exception handler table of a method's code attribute, in table order;
\* that of the method drawn is the specification's.
ExceptionHandlers(m) ==
  CASE m = "drawn" -> hist.env.table
    [] m = "lateCatch" ->
         <<[startPC |-> 3, endPC |-> 6, handlerPC |-> 6, catchType |-> "<any>"]>>
    [] m = "catchE" ->
         <<[startPC |-> 0, endPC |-> 3, handlerPC |-> 6, catchType |-> "E"]>>
    [] m = "catchF" ->
         <<[startPC |-> 0, endPC |-> 3, handlerPC |-> 6, catchType |-> "F"]>>
    [] m = "catchAny" ->
         <<[startPC |-> 3, endPC |-> 6, handlerPC |-> 7, catchType |-> "F"],
           [startPC |-> 0, endPC |-> 3, handlerPC |-> 6, catchType |-> "<any>"]>>
    [] OTHER -> <<>>

\* ecls.isCastable(resolvedCatchType), for the classes of the modelled
\* programs: E and F are unrelated.
IsCastable(ecls, catchType) == ecls = catchType

\* new BytecodeStackFrame(method, args)
BytecodeStackFrame(m) ==
  [type |-> "BYTECODE", method |-> m, pc |-> 0, stack |-> <<>>,
   lockedMethodLock |-> FALSE, isException |-> FALSE, val |-> UNDEFINED,
   acquired |-> 0, cb |-> "none", ran |-> FALSE]

\* new NativeStackFrame(method, args)
NativeStackFrame(m) ==
  [type |-> "NATIVE", method |-> m, pc |-> 0, stack |-> <<>>,
   lockedMethodLock |-> FALSE, isException |-> FALSE, val |-> UNDEFINED,
   acquired |-> 0, cb |-> "none", ran |-> FALSE]

\* new InternalStackFrame(cb), with a callback of the host; the callback of
\* throwNewException is named by the exception it has constructed.
InternalStackFrame ==
  [type |-> "INTERNAL", method |-> "none", pc |-> 0, stack |-> <<>>,
   lockedMethodLock |-> FALSE, isException |-> FALSE, val |-> UNDEFINED,
   acquired |-> 0, cb |-> "host", ran |-> FALSE]

Top(s) == s[Len(s)]
Pop(s) == SubSeq(s, 1, Len(s) - 1)
IndexOf(s, x) == IF \E i \in 1 .. Len(s) : s[i] = x
                 THEN (CHOOSE i \in 1 .. Len(s) : s[i] = x /\ \A j \in 1 .. i - 1 : s[j] # x) - 1
                 ELSE -1
\* Array.prototype.splice(idx, 1), idx >= 0
Splice(s, idx) == SubSeq(s, 1, idx) \o SubSeq(s, idx + 2, Len(s))
\* JavaScript's %: the sign of the result is the sign of the dividend.
JSMod(a, n) == IF a >= 0 THEN a % n ELSE -((-a) % n)

Throw(p) == [p EXCEPT !.thrown = TRUE]

(***************************************************************************)
(* JVMThread and ThreadPool: the calls, each from a state record to the    *)
(* state record it leaves.                                                 *)
(***************************************************************************)

\* A call of one operation from inside another goes through the dispatcher
\* Call, which hands it to the operation named: CallSetStatus(p, ...) is
\* thread.setStatus(...) called in state p.
RECURSIVE Call(_, _)
CallSetStatus(p, t, newStatus, mon) ==
  Call(p, [op |-> "SetStatus", t |-> t, newStatus |-> newStatus, mon |-> mon])
CallAsyncReturn(p, t, rv, rv2) ==
  Call(p, [op |-> "AsyncReturn", t |-> t, rv |-> rv, rv2 |-> rv2])
CallExit(p, t) ==
  Call(p, [op |-> "Exit", t |-> t])
CallPhase2(p, t, m) ==
  Call(p, [op |-> "Phase2", t |-> t, m |-> m])
CallThreadTerminated(p, t) ==
  Call(p, [op |-> "ThreadTerminated", t |-> t])
CallMonitorEnter(p, m, t, cb) ==
  Call(p, [op |-> "MonitorEnter", m |-> m, t |-> t, cb |-> cb])
CallMonitorExit(p, m, t) ==
  Call(p, [op |-> "MonitorExit", m |-> m, t |-> t])
CallRunCallback(p, cb, t) ==
  Call(p, [op |-> "RunCallback", cb |-> cb, t |-> t])
CallRunMethod(p, t, m) ==
  Call(p, [op |-> "RunMethod", t |-> t, m |-> m])
CallThrowException(p, t, e) ==
  Call(p, [op |-> "ThrowException", t |-> t, e |-> e])
CallUnwindFrames(p, t, e) ==
  Call(p, [op |-> "UnwindFrames", t |-> t, e |-> e])
CallRun(p, t) ==
  Call(p, [op |-> "Run", t |-> t])

RawSetStatus(p, t, newStatus) ==
  [p EXCEPT !.status[t] = newStatus,
            !.threadStatus[p.jvmThreadObj[t]] = JVMTIProjection(newStatus)]

AddThread(p, t) ==
  IF IndexOf(p.threads, t) = -1
  THEN [p EXCEPT !.threads = Append(@, t)]
  ELSE p

\* A resurrectThread that does not put the thread back in the list.
ResurrectThreadForgetful(p, t) == p

ResurrectThread(p, t) == AddThread(p, t)

\* setImmediate(cb)
SetImmediate(p, cb) == [p EXCEPT !.pending = Append(@, cb)]

ScheduleNextThread(p) == SetImmediate(p, [kind |-> "scan", thread |-> NULL])

ThreadRunnable(p, t) ==
  IF p.runningThread = NULL THEN ScheduleNextThread(p) ELSE p

AnySchedulableThreads(p) ==
  \E i \in 1 .. Len(p.threads) :
    /\ ~p.daemon[p.jvmThreadObj[p.threads[i]]]
    /\ p.status[p.threads[i]] \notin {"NEW", "TERMINATED"}

\* A threadSuspended that clears the running thread and schedules nothing.
ThreadSuspendedUnscheduled(p, t) ==
  IF t = p.runningThread
  THEN [p EXCEPT !.runningThread = NULL]
  ELSE p

ThreadSuspended(p, t) ==
  IF t = p.runningThread
  THEN ScheduleNextThread([p EXCEPT !.runningThread = NULL])
  ELSE p

\* A resume that moves every invoke on by 3.
BytecodeScheduleResumeBy3(f, rv, rv2) ==
  LET prevOp == MethodInfo(f.method).code[f.pc]
      pushed1 == IF rv # UNDEFINED THEN Append(f.stack, rv) ELSE f.stack
      pushed2 == IF rv2 # UNDEFINED THEN Append(pushed1, rv2) ELSE pushed1
  IN  IF prevOp \in InvokeInterfaceOps \cup InvokeOps
      THEN [f EXCEPT !.pc = f.pc + 3, !.stack = pushed2]
      ELSE [f EXCEPT !.type = "throw"]

\* scheduleResume of the three frame kinds: the frame after the call, or
\* "throw" when its assertion fails.
BytecodeScheduleResume(f, rv, rv2) ==
  LET prevOp == MethodInfo(f.method).code[f.pc]
      pushed1 == IF rv # UNDEFINED THEN Append(f.stack, rv) ELSE f.stack
      pushed2 == IF rv2 # UNDEFINED THEN Append(pushed1, rv2) ELSE pushed1
  IN  IF prevOp \in InvokeInterfaceOps
      THEN [f EXCEPT !.pc = f.pc + 5, !.stack = pushed2]
      ELSE IF prevOp \in InvokeOps
      THEN [f EXCEPT !.pc = f.pc + 3, !.stack = pushed2]
      ELSE [f EXCEPT !.type = "throw"]

InternalScheduleResume(f, rv) == [f EXCEPT !.isException = FALSE, !.val = rv]

ScheduleResume(f, rv, rv2) ==
  CASE f.type = "BYTECODE" -> BytecodeScheduleResume(f, rv, rv2)
    [] f.type = "NATIVE" -> f
    [] f.type = "INTERNAL" -> InternalScheduleResume(f, rv)

\* validateReturnValue, as far as the modelled values go: the asserts on the
\* two return values for the declared return type.
ValidateReturnValue(m, rv, rv2) ==
  LET rt == MethodInfo(m).returnType
  IN  CASE rt = "Z" -> rv2 = UNDEFINED /\ rv \in {"0", "1"}
        [] rt = "I" -> rv2 = UNDEFINED /\ rv \in {"0", "1", "42"}
        [] rt = "J" -> rv2 = JSNULL /\ rv = "long7"
        [] rt = "V" -> rv = UNDEFINED /\ rv2 = UNDEFINED
        [] OTHER -> TRUE

FramePop(p, t) == [p EXCEPT !.stack[t] = Pop(@)]

\* The observation of an asyncReturn on a stack that is not empty: the thread,
\* the values, the kind of the frame it pops, the depth of the stack, the
\* frame beneath and the thread's status as they are before; and, when the
\* call returns, the status and the depth it leaves.
NoFrame == [InternalStackFrame EXCEPT !.type = "NONE"]
Returning(p, t, rv, rv2) ==
  [p EXCEPT !.obs = [@ EXCEPT !.done =
     [thread |-> t, value |-> rv, value2 |-> rv2,
      type |-> Top(p.stack[t]).type, depth |-> Len(p.stack[t]),
      below |-> IF Len(p.stack[t]) > 1 THEN p.stack[t][Len(p.stack[t]) - 1]
                ELSE NoFrame,
      from |-> p.status[t], to |-> "none", after |-> -1]]]
Returned(p, t) ==
  IF p.thrown THEN p
  ELSE [p EXCEPT !.obs.done.to = p.status[t], !.obs.done.after = Len(p.stack[t])]

AsyncReturn(p, t, rv, rv2) ==
  IF p.thrown THEN p
  ELSE IF p.status[t] \notin {"RUNNING", "RUNNABLE", "ASYNC_WAITING"} THEN Throw(p)
  ELSE IF rv \in {"true", "false"} \/ rv2 \notin {UNDEFINED, JSNULL} THEN Throw(p)
  ELSE IF Len(p.stack[t]) = 0 THEN Throw(p)
  ELSE
    LET frame == Top(p.stack[t])
        rest == Pop(p.stack[t])
        q == Returning(p, t, rv, rv2)
    IN  IF frame.type # "INTERNAL" /\ ~ValidateReturnValue(frame.method, rv, rv2)
        THEN Throw([q EXCEPT !.stack[t] = rest])
        ELSE IF Len(rest) = 0
        THEN Returned(CallSetStatus([q EXCEPT !.stack[t] = rest,
                                              !.hist.emptied = @ \cup {t}],
                                    t, "RUNNABLE", NULL), t)
        ELSE LET below == ScheduleResume(Top(rest), rv, rv2)
             IN  IF below.type = "throw"
                 THEN Throw([q EXCEPT !.stack[t] = rest])
                 ELSE Returned(CallSetStatus(
                                 [q EXCEPT !.stack[t] = Append(Pop(rest), below),
                                           !.obs = [@ EXCEPT !.resumes = @ + 1]],
                                 t, "RUNNABLE", NULL), t)

\* ---- the intrinsic monitor of a Java object (Monitor of ./Monitor) ----
\* on_acquire callbacks: phase2 of JVMThread.exit, the callback
\* BytecodeStackFrame.run hands to the method lock (it sets the frame's flag),
\* and the monitorenter opcode's (it moves the frame past the opcode).
\* The frame a callback closed over is still the frame at its depth.
SameFrame(p, cb, t) ==
  /\ cb.depth <= Len(p.stack[t])
  /\ p.stack[t][cb.depth].method = cb.method
  /\ p.stack[t][cb.depth].pc = cb.pc
  /\ p.stack[t][cb.depth].type = "BYTECODE"

RunCallback(p, cb, t) ==
  IF p.thrown THEN p
  ELSE IF cb.kind = "phase2" THEN CallPhase2(p, t, cb.mon)
  ELSE IF cb.kind = "lock" /\ SameFrame(p, cb, t)
  THEN [p EXCEPT !.stack[t][cb.depth].lockedMethodLock = TRUE,
                 !.stack[t][cb.depth].acquired = @ + 1,
                 !.hist.granted = @ \cup {t}]
  ELSE IF cb.kind = "pc" /\ SameFrame(p, cb, t)
  THEN [p EXCEPT !.stack[t][cb.depth].pc = @ + 1]
  ELSE p

\* enter(thread, on_acquire): ret is true for immediate acquisition, false
\* after arranging the callback and blocking the thread.
MonitorEnter(p, m, t, cb) ==
  IF p.thrown THEN p
  ELSE IF p.monOwner[m] = t
  THEN [p EXCEPT !.monCount[m] = @ + 1, !.ret = TRUE]
  ELSE IF p.monOwner[m] = NULL
  THEN [p EXCEPT !.monOwner[m] = t, !.monCount[m] = 1, !.ret = TRUE]
  ELSE LET q == CallSetStatus(
                  [p EXCEPT !.monBlocked[m] = @ \cup {[thread |-> t, cb |-> cb]}],
                  t, "BLOCKED", m)
       IN  [q EXCEPT !.ret = FALSE]

\* The thread the released monitor goes to: any blocked thread.
AppointNewOwner(p, m) ==
  IF \E e \in p.monBlocked[m] : e.thread = p.pick
  THEN CHOOSE e \in p.monBlocked[m] : e.thread = p.pick
  ELSE CHOOSE e \in p.monBlocked[m] :
         \A o \in p.monBlocked[m] : e.thread <= o.thread

\* exit(thread), by the owner: the last exit releases the monitor and hands it
\* to a blocked thread, which becomes RUNNABLE, owns the monitor and has its
\* callback invoked.
MonitorExit(p, m, t) ==
  IF p.thrown THEN p
  ELSE IF p.monOwner[m] # t THEN p
  ELSE IF p.monCount[m] > 1 THEN [p EXCEPT !.monCount[m] = @ - 1]
  ELSE IF p.monBlocked[m] = {}
  THEN [p EXCEPT !.monOwner[m] = NULL, !.monCount[m] = 0]
  ELSE LET e == AppointNewOwner(p, m)
           p1 == CallSetStatus([p EXCEPT !.monOwner[m] = NULL, !.monCount[m] = 0,
                                     !.monBlocked[m] = @ \ {e}],
                           e.thread, "RUNNABLE", NULL)
           p2 == IF p1.thrown THEN p1
                 ELSE [p1 EXCEPT !.monOwner[m] = e.thread, !.monCount[m] = 1]
       IN  CallRunCallback(p2, e.cb, e.thread)

\* notifyAll(thread): no thread of the modelled programs waits on a monitor.
MonitorNotifyAll(p, m, t) == p

\* ---- JVMThread ----
\* A call changed nothing of the pool, its threads and the monitors: q, the
\* state after it, is p, the state before it.
Quiet(p, q) ==
  /\ ~q.thrown
  /\ q.status = p.status /\ q.threadStatus = p.threadStatus
  /\ q.monitor = p.monitor /\ q.stack = p.stack
  /\ q.threads = p.threads /\ q.runningThread = p.runningThread
  /\ q.runningThreadIndex = p.runningThreadIndex
  /\ q.pending = p.pending /\ q.parkCounts = p.parkCounts
  /\ q.monOwner = p.monOwner /\ q.monCount = p.monCount
  /\ q.monBlocked = p.monBlocked
  /\ q.exitCalls = p.exitCalls /\ q.emptyCalls = p.emptyCalls

\* The observation of whether the call that led from p to q was quiet.
Compared(p, q) == [q EXCEPT !.obs.quiet = Quiet(p, q)]

\* What became of the request a callback made of setStatus, noted for the
\* properties: the first setStatus of the callback notes it.
Note(p, o) == IF p.note = "none" THEN [p EXCEPT !.note = o] ELSE p

\* A setStatus that lets immortal threads terminate.
PreventTerminationNever(p, t, newStatus) == FALSE

\* "Prevent termination if immortal."
PreventTermination(p, t, newStatus) ==
  p.immortal[t] /\ newStatus = "TERMINATED"

\* A setStatus that leaves the monitor reference as it is.
KeepMonitor(p, t) == p

\* this.monitor = null
ClearMonitor(p, t) == [p EXCEPT !.monitor[t] = NULL]

\* A setStatus that carries out RUNNING => RUNNABLE like any transition.
SetStatusYielding(p, t, newStatus, mon) ==
  IF p.thrown THEN p
  ELSE IF ~(p.status[t] # newStatus)
  THEN Note(p, "ignored")
  ELSE IF PreventTermination(p, t, newStatus) THEN Note(p, "ignored")
  ELSE IF ~ValidateThreadTransition(p.status[t], newStatus)
  THEN Throw(Note(p, "rejected"))
  ELSE
    LET oldStatus == p.status[t]
        p1 == ClearMonitor(RawSetStatus(Note(p, "applied"), t, newStatus), t)
        \* Pre-transition actions
        p2 == CASE oldStatus = "TERMINATED" -> ResurrectThread(p1, t)
                [] oldStatus = "PARKED" -> CallAsyncReturn(p1, t, UNDEFINED, UNDEFINED)
                [] OTHER -> p1
        now == p2.status[t]
    IN  \* Post-transition actions
        IF p2.thrown THEN p2
        ELSE CASE now = "RUNNABLE" -> ThreadRunnable(p2, t)
               [] now = "RUNNING" -> CallRun(p2, t)
               [] now = "TERMINATED" -> CallExit(p2, t)
               [] now \in {"BLOCKED", "UNINTERRUPTABLY_BLOCKED", "WAITING",
                           "TIMED_WAITING"} ->
                    IF mon = NULL THEN Throw(p2)
                    ELSE ThreadSuspended([p2 EXCEPT !.monitor[t] = mon,
                                                    !.hist.passed[t] = mon], t)
               [] OTHER -> ThreadSuspended(p2, t)

\* hist.passed keeps the monitor handed over with the transition to a status
\* of waiting for a monitor.
SetStatus(p, t, newStatus, mon) ==
  IF p.thrown THEN p
  ELSE IF ~(p.status[t] # newStatus
            /\ ~(p.status[t] = "RUNNING" /\ newStatus = "RUNNABLE"))
  THEN Note(p, "ignored")
  ELSE IF PreventTermination(p, t, newStatus) THEN Note(p, "ignored")
  ELSE IF ~ValidateThreadTransition(p.status[t], newStatus)
  THEN Throw(Note(p, "rejected"))
  ELSE
    LET oldStatus == p.status[t]
        p1 == ClearMonitor(RawSetStatus(Note(p, "applied"), t, newStatus), t)
        \* Pre-transition actions
        p2 == CASE oldStatus = "TERMINATED" -> ResurrectThread(p1, t)
                [] oldStatus = "PARKED" -> CallAsyncReturn(p1, t, UNDEFINED, UNDEFINED)
                [] OTHER -> p1
        now == p2.status[t]
    IN  \* Post-transition actions
        IF p2.thrown THEN p2
        ELSE CASE now = "RUNNABLE" -> ThreadRunnable(p2, t)
               [] now = "RUNNING" -> CallRun(p2, t)
               [] now = "TERMINATED" -> CallExit(p2, t)
               [] now \in {"BLOCKED", "UNINTERRUPTABLY_BLOCKED", "WAITING",
                           "TIMED_WAITING"} ->
                    IF mon = NULL THEN Throw(p2)
                    ELSE ThreadSuspended([p2 EXCEPT !.monitor[t] = mon,
                                                    !.hist.passed[t] = mon], t)
               [] OTHER -> ThreadSuspended(p2, t)

Phase2(p, t, m) ==
  LET p1 == MonitorNotifyAll(p, m, t)
      p2 == CallMonitorExit(p1, m, t)
  IN  IF p2.thrown THEN p2
      ELSE CallThreadTerminated(RawSetStatus(p2, t, "TERMINATED"), t)

Exit(p, t) ==
  LET m == p.jvmThreadObj[t]
      p1 == RawSetStatus(p, t, "ASYNC_WAITING")
      p2 == CallMonitorEnter(p1, m, t, [kind |-> "phase2", mon |-> m, depth |-> 0, method |-> "none", pc |-> 0])
  IN  IF p2.thrown THEN p2
      ELSE IF p2.ret THEN CallPhase2(p2, t, m)
      ELSE p2

\* thread.runMethod of the callers: push the method's frame and ask for
\* RUNNABLE ("First run request"). hist.emptied keeps the threads whose last
\* frame asyncReturn popped and that have been given no frame since.
RunMethod(p, t, m) ==
  LET f == IF MethodInfo(m).native THEN NativeStackFrame(m) ELSE BytecodeStackFrame(m)
  IN  CallSetStatus([p EXCEPT !.stack[t] = Append(@, f),
                              !.hist.emptied = @ \ {t}], t, "RUNNABLE", NULL)

\* java/lang/System/exit(I)V invoked on the thread.
SystemExit(p, t) ==
  CallRunMethod([p EXCEPT !.exitCalls = @ + 1], t, "exit")

\* ---- ThreadPool ----
\* The number of scans scheduleNextThread has deferred and that have not run.
Scans(p) == Cardinality({i \in 1 .. Len(p.pending) : p.pending[i].kind = "scan"})

\* A threadTerminated that leaves the running index as it is when another
\* thread than the running one is removed.
ThreadTerminatedKeepingIndex(p, t) ==
  LET idx == IndexOf(p.threads, t)
  IN  IF p.thrown THEN p
      ELSE IF idx < 0 THEN Throw(p)
      ELSE
        LET p1 == [p EXCEPT !.threads = Splice(@, idx),
                            !.obs.removed = [thread |-> t,
                                             remain |-> AnySchedulableThreads(
                                                          [p EXCEPT !.threads = Splice(@, idx)]),
                                             shutdown |-> p.jvmShutdown,
                                             scans |-> Scans(p), exits |-> p.exitCalls,
                                             empties |-> p.emptyCalls]]
        IN  IF p1.runningThread = t
            THEN LET p2 == [p1 EXCEPT !.runningThread = NULL,
                                      !.runningThreadIndex = @ - 1]
                 IN  IF AnySchedulableThreads(p2) THEN ScheduleNextThread(p2)
                     ELSE IF ~p2.jvmShutdown THEN SystemExit(p2, t)
                     ELSE [p2 EXCEPT !.emptyCalls = @ + 1]
            ELSE p1

\* The thread is removed from the list; obs.removed keeps the thread, what
\* the accounting has to go by and the counts before it.
ThreadTerminated(p, t) ==
  LET idx == IndexOf(p.threads, t)
  IN  IF p.thrown THEN p
      ELSE IF idx < 0 THEN Throw(p)
      ELSE
        LET p1 == [p EXCEPT !.threads = Splice(@, idx),
                            !.obs.removed = [thread |-> t,
                                             remain |-> AnySchedulableThreads(
                                                          [p EXCEPT !.threads = Splice(@, idx)]),
                                             shutdown |-> p.jvmShutdown,
                                             scans |-> Scans(p), exits |-> p.exitCalls,
                                             empties |-> p.emptyCalls]]
        IN  IF p1.runningThread = t
            THEN LET p2 == [p1 EXCEPT !.runningThread = NULL,
                                      !.runningThreadIndex = @ - 1]
                 IN  IF AnySchedulableThreads(p2) THEN ScheduleNextThread(p2)
                     ELSE IF ~p2.jvmShutdown THEN SystemExit(p2, t)
                     ELSE [p2 EXCEPT !.emptyCalls = @ + 1]
            ELSE [p1 EXCEPT !.runningThreadIndex = IndexOf(p1.threads, p1.runningThread)]

\* ---- the numbers of the responsiveness countdown ----
\* maxMethodResumes and methodResumesLeft are JavaScript numbers: the moving
\* average makes them fractions, held here as [num, den] in lowest terms.
RECURSIVE GCD(_, _)
GCD(a, b) == IF b = 0 THEN a ELSE GCD(b, a % b)
Rat(n, d) == LET g == GCD(IF n < 0 THEN -n ELSE n, d)
             IN  [num |-> n \div g, den |-> d \div g]
\* --x: a value below zero only moves further from zero, and is held as -1.
RatDecrement(x) == IF x.num < x.den THEN [num |-> -1, den |-> 1]
                   ELSE Rat(x.num - x.den, x.den)
RatIsZero(x) == x.num = 0
\* (est + numSamples * max) / (numSamples + 1)
CMA(est, n, max) == Rat(est * max.den + n * max.num, max.den * (n + 1))

\* ---- JVMThread.run: the execution loop ----
\* The loop's test; when it fails, the loop's tail.
LoopTest(p, t) ==
  IF p.thrown THEN p
  ELSE IF p.status[t] = "RUNNING" /\ Len(p.stack[t]) > 0
  THEN [p EXCEPT !.loop = t]
  ELSE LET p1 == [p EXCEPT !.loop = NULL]
       IN  IF Len(p1.stack[t]) = 0
           THEN CallSetStatus(p1, t, "TERMINATED", NULL)
           ELSE p1

\* obs.nested: run() was called while an execution loop was active.
\* hist.slot: the value the countdown starts at and the number of frames run
\* since, counted up to MaxSlotRuns.
Run(p, t) ==
  LoopTest([p EXCEPT !.methodResumesLeft = p.maxMethodResumes,
                     !.obs.nested = @ \/ p.loop # NULL,
                     !.hist.slot = [runs |-> 0, max |-> p.maxMethodResumes]], t)

\* A countdown whose yield makes the thread RUNNABLE again at once, without
\* setImmediate.
CountdownResumingAtOnce(p, t, est) ==
  IF p.thrown THEN p
  ELSE
    LET left == RatDecrement(p.methodResumesLeft)
        p1 == [p EXCEPT !.methodResumesLeft = left,
                        !.hist.slot.runs = IF @ < MaxSlotRuns THEN @ + 1 ELSE @]
    IN  IF ~RatIsZero(left) THEN p1
        ELSE
          LET p2 == [p1 EXCEPT
                       !.maxMethodResumes = CMA(est, p1.numSamples, p1.maxMethodResumes),
                       !.numSamples = @ + 1]
          IN  IF p2.status[t] = "RUNNING"
              THEN CallSetStatus(CallSetStatus([p2 EXCEPT !.obs.yielded = t],
                                               t, "ASYNC_WAITING", NULL),
                                 t, "RUNNABLE", NULL)
              ELSE p2

\* What follows the top frame's run in the loop body: the countdown and, at
\* zero, the moving average and the yield. est is estMaxMethodResumes, which
\* the clock decides.
Countdown(p, t, est) ==
  IF p.thrown THEN p
  ELSE
    LET left == RatDecrement(p.methodResumesLeft)
        p1 == [p EXCEPT !.methodResumesLeft = left,
                        !.hist.slot.runs = IF @ < MaxSlotRuns THEN @ + 1 ELSE @]
    IN  IF ~RatIsZero(left) THEN p1
        ELSE
          LET p2 == [p1 EXCEPT
                       !.maxMethodResumes = CMA(est, p1.numSamples, p1.maxMethodResumes),
                       !.numSamples = @ + 1]
          IN  IF p2.status[t] = "RUNNING"
              THEN SetImmediate(CallSetStatus([p2 EXCEPT !.obs.yielded = t],
                                              t, "ASYNC_WAITING", NULL),
                                [kind |-> "yield", thread |-> t])
              ELSE p2

\* One pass of the loop body after the frame has run, and the loop's test.
AfterFrame(p, t, est) == LoopTest(Countdown(p, t, est), t)

\* ---- ThreadPool: scheduling and parking ----
\* The observation of a scan that picks a thread: the thread picked, the
\* thread that ran most recently before it, and the other threads of the list
\* that are RUNNABLE at this moment. hist keeps the thread and, when asked to,
\* the latest NumThreads picks.
Picked(p, thread) ==
  [p EXCEPT !.obs = [@ EXCEPT !.op = "scan", !.thread = thread,
                              !.prevRun = p.hist.lastRun,
                              !.others = {p.threads[i] : i \in 1 .. Len(p.threads)}
                                           \cap {u \in Threads : u # thread
                                                   /\ p.status[u] = "RUNNABLE"}],
            !.hist = [@ EXCEPT !.lastRun = thread,
                               !.order = IF ~p.hist.track THEN @
                                         ELSE IF Len(@) < NumThreads THEN Append(@, thread)
                                         ELSE Append(Tail(@), thread)]]

\* A scan that starts at the head of the list every time.
RECURSIVE ScanFromStart(_, _)
ScanFromStart(p, i) ==
  IF i >= Len(p.threads) THEN p
  ELSE LET thread == p.threads[i + 1]
       IN  IF p.status[thread] = "RUNNABLE"
           THEN CallSetStatus(Picked([p EXCEPT !.runningThread = thread,
                                               !.runningThreadIndex = i],
                                     thread),
                              thread, "RUNNING", NULL)
           ELSE ScanFromStart(p, i + 1)

\* The callback scheduleNextThread defers.
RECURSIVE ScanFrom(_, _)
ScanFrom(p, i) ==
  IF i >= Len(p.threads) THEN p
  ELSE LET iFixed == JSMod(p.runningThreadIndex + 1 + i, Len(p.threads))
       IN  IF iFixed < 0 THEN Throw(p)
           ELSE LET thread == p.threads[iFixed + 1]
                IN  IF p.status[thread] = "RUNNABLE"
                    THEN CallSetStatus(Picked([p EXCEPT !.runningThread = thread,
                                                    !.runningThreadIndex = iFixed],
                                          thread),
                                   thread, "RUNNING", NULL)
                    ELSE ScanFrom(p, i + 1)

\* The scan without its test of the running thread.
ScanCallbackUnguarded(p) == ScanFrom(p, 0)

ScanCallback(p) ==
  IF p.runningThread = NULL THEN ScanFrom(p, 0) ELSE p

GetRef(p, t) == p.jvmThreadObj[t]

InitParkCount(p, t) ==
  IF GetRef(p, t) \in DOMAIN p.parkCounts THEN p
  ELSE [p EXCEPT !.parkCounts = @ @@ (GetRef(p, t) :> 0)]

\* park that parks at a count of zero too.
ParkAtZero(p, t) ==
  LET p1 == InitParkCount(p, t)
      p2 == [p1 EXCEPT !.parkCounts[GetRef(p, t)] = @ + 1]
  IN  IF p2.parkCounts[GetRef(p, t)] >= 0
      THEN CallSetStatus(p2, t, "PARKED", NULL)
      ELSE p2

Park(p, t) ==
  LET p1 == InitParkCount(p, t)
      p2 == [p1 EXCEPT !.parkCounts[GetRef(p, t)] = @ + 1]
  IN  IF p2.parkCounts[GetRef(p, t)] > 0
      THEN CallSetStatus(p2, t, "PARKED", NULL)
      ELSE p2

\* unpark that releases the thread only below zero.
UnparkBelowZero(p, t) ==
  LET p1 == InitParkCount(p, t)
      p2 == [p1 EXCEPT !.parkCounts[GetRef(p, t)] = @ - 1]
  IN  IF p2.parkCounts[GetRef(p, t)] < 0
      THEN CallSetStatus(p2, t, "RUNNABLE", NULL)
      ELSE p2

Unpark(p, t) ==
  LET p1 == InitParkCount(p, t)
      p2 == [p1 EXCEPT !.parkCounts[GetRef(p, t)] = @ - 1]
  IN  IF p2.parkCounts[GetRef(p, t)] <= 0
      THEN CallSetStatus(p2, t, "RUNNABLE", NULL)
      ELSE p2

CompletelyUnpark(p, t) ==
  CallSetStatus([p EXCEPT !.parkCounts =
                        [r \in DOMAIN @ \cup {GetRef(p, t)} |->
                           IF r = GetRef(p, t) THEN 0 ELSE @[r]]],
            t, "RUNNABLE", NULL)

IsParked(p, t) ==
  GetRef(p, t) \in DOMAIN p.parkCounts /\ p.parkCounts[GetRef(p, t)] > 0

\* new JVMThread(bsCl, tpool, threadObj), and ThreadPool.newThread
NewThread(p, t) ==
  AddThread([p EXCEPT !.created = @ \cup {t}, !.status[t] = "NEW",
                      !.stack[t] = <<>>, !.monitor[t] = NULL,
                      !.jvmThreadObj[t] = t], t)

SetJVMObject(p, t, obj) ==
  [p EXCEPT !.threadStatus[obj] = p.threadStatus[p.jvmThreadObj[t]],
            !.jvmThreadObj[t] = obj]

(***************************************************************************)
(* Exceptions: scheduleException of the frames, and throwException.        *)
(***************************************************************************)
\* A walk that takes a handler's range to include its endPC.
RECURSIVE FindHandlerInclusive(_, _, _, _, _)
FindHandlerInclusive(hs, i, pc, ecls, resolved) ==
  IF i > Len(hs) THEN [kind |-> "none", handlerPC |-> 0]
  ELSE LET eh == hs[i]
       IN  IF eh.startPC <= pc /\ pc <= eh.endPC
           THEN IF eh.catchType = "<any>"
                THEN [kind |-> "handler", handlerPC |-> eh.handlerPC]
                ELSE IF eh.catchType \in resolved
                THEN IF IsCastable(ecls, eh.catchType)
                     THEN [kind |-> "handler", handlerPC |-> eh.handlerPC]
                     ELSE FindHandlerInclusive(hs, i + 1, pc, ecls, resolved)
                ELSE [kind |-> "async", handlerPC |-> 0]
           ELSE FindHandlerInclusive(hs, i + 1, pc, ecls, resolved)

\* STEP 1 of BytecodeStackFrame.scheduleException: the walk of the handler
\* table from entry i. The answer is the handler found, or that a catch type
\* has to be resolved first, or that no handler applies.
RECURSIVE FindHandler(_, _, _, _, _)
FindHandler(hs, i, pc, ecls, resolved) ==
  IF i > Len(hs) THEN [kind |-> "none", handlerPC |-> 0]
  ELSE LET eh == hs[i]
       IN  IF eh.startPC <= pc /\ pc < eh.endPC
           THEN IF eh.catchType = "<any>"
                THEN [kind |-> "handler", handlerPC |-> eh.handlerPC]
                ELSE IF eh.catchType \in resolved
                THEN IF IsCastable(ecls, eh.catchType)
                     THEN [kind |-> "handler", handlerPC |-> eh.handlerPC]
                     ELSE FindHandler(hs, i + 1, pc, ecls, resolved)
                ELSE [kind |-> "async", handlerPC |-> 0]
           ELSE FindHandler(hs, i + 1, pc, ecls, resolved)

\* The catch types resolveClasses is asked for: all but the any-marker.
HandlerClasses(hs) ==
  {hs[i].catchType : i \in 1 .. Len(hs)} \ {"<any>"}

\* A scheduleException that answers false after asking for the resolution of
\* a catch type.
BytecodeScheduleExceptionDeclining(p, t, e) ==
  LET d == Len(p.stack[t])
      f == p.stack[t][d]
      hs == ExceptionHandlers(f.method)
      found == FindHandler(hs, 1, f.pc, e, p.loader.resolved)
  IN  CASE found.kind = "async" ->
             LET p1 == CallSetStatus(p, t, "ASYNC_WAITING", NULL)
             IN  IF p1.thrown THEN p1
                 ELSE [p1 EXCEPT !.loader.requests =
                                   @ \cup {[thread |-> t, classes |-> HandlerClasses(hs),
                                            exc |-> e, method |-> f.method]},
                                 !.ret = FALSE]
        [] found.kind = "handler" ->
             [p EXCEPT !.stack[t][d].stack = <<e>>,
                       !.stack[t][d].pc = found.handlerPC,
                       !.ret = TRUE]
        [] OTHER ->
             LET p1 == IF MethodInfo(f.method).sync
                       THEN CallMonitorExit(p, MethodLock(f.method), t)
                       ELSE p
             IN  [p1 EXCEPT !.ret = FALSE]

\* BytecodeStackFrame.scheduleException of the thread's top frame; ret is
\* what it returns. obs.unwound.asked keeps the frame as it was, the frame as
\* the call leaves it, and the call's result.
BytecodeScheduleException(p, t, e) ==
  LET d == Len(p.stack[t])
      f == p.stack[t][d]
      hs == ExceptionHandlers(f.method)
      found == FindHandler(hs, 1, f.pc, e, p.loader.resolved)
      Asked(r) ==
        [r EXCEPT !.obs.unwound.asked =
                    Append(@, [before |-> f, after |-> r.stack[t][d], ret |-> r.ret])]
  IN  Asked(CASE found.kind = "async" ->
                  LET p1 == CallSetStatus(p, t, "ASYNC_WAITING", NULL)
                  IN  IF p1.thrown THEN p1
                      ELSE [p1 EXCEPT !.loader.requests =
                                        @ \cup {[thread |-> t, classes |-> HandlerClasses(hs),
                                                 exc |-> e, method |-> f.method]},
                                      !.ret = TRUE]
             [] found.kind = "handler" ->
                  [p EXCEPT !.stack[t][d].stack = <<e>>,
                            !.stack[t][d].pc = found.handlerPC,
                            !.ret = TRUE]
             [] OTHER ->
                  LET p1 == IF MethodInfo(f.method).sync
                            THEN CallMonitorExit(p, MethodLock(f.method), t)
                            ELSE p
                  IN  [p1 EXCEPT !.ret = FALSE])

\* NativeStackFrame.scheduleException
NativeScheduleException(p, t, e) == [p EXCEPT !.ret = FALSE]

\* InternalStackFrame.scheduleException
InternalScheduleException(p, t, e) ==
  [p EXCEPT !.stack[t][Len(p.stack[t])].isException = TRUE,
            !.stack[t][Len(p.stack[t])].val = e,
            !.ret = TRUE]

ScheduleException(p, t, e) ==
  CASE Top(p.stack[t]).type = "BYTECODE" -> BytecodeScheduleException(p, t, e)
    [] Top(p.stack[t]).type = "NATIVE" -> NativeScheduleException(p, t, e)
    [] OTHER -> InternalScheduleException(p, t, e)

\* handleUncaughtException: the thread object's
\* dispatchUncaughtException(Ljava/lang/Throwable;)V is run on the thread.
HandleUncaughtException(p, t, e) ==
  CallRunMethod([p EXCEPT !.obs.unwound.dispatches = @ + 1,
                          !.obs.unwound.depth = Len(p.stack[t])],
                t, "dispatchUncaughtException")

\* An unwinding that consults the top frame only.
UnwindTopFrame(p, t, e) ==
  IF p.thrown \/ Len(p.stack[t]) = 0 THEN p
  ELSE LET q == ScheduleException(p, t, e)
       IN  IF q.thrown \/ q.ret THEN q
           ELSE FramePop(q, t)

\* The while loop of throwException: frames are popped until one answers
\* true or none is left.
UnwindFrames(p, t, e) ==
  IF p.thrown \/ Len(p.stack[t]) = 0 THEN p
  ELSE LET q == ScheduleException(p, t, e)
       IN  IF q.thrown \/ q.ret THEN q
           ELSE CallUnwindFrames(FramePop(q, t), t, e)

\* The end of throwException: the test of the empty stack.
DispatchIfEmpty(p, t, e) ==
  IF p.thrown THEN p
  ELSE IF Len(p.stack[t]) = 0 THEN HandleUncaughtException(p, t, e)
  ELSE p

\* A throwException that asks an internal frame on top like any other frame.
ThrowExceptionAskingTop(p, t, e) ==
  LET p0 == [p EXCEPT !.obs.op = "throw", !.obs.thread = t,
                      !.obs.from = p.status[t],
                      !.obs.unwound.before = p.stack[t],
                      !.obs.unwound.exc = e,
                      !.obs.unwound.throws = @ + 1,
                      !.obs.unwound.resolved = p.loader.resolved]
      p2 == IF Len(p0.stack[t]) > 0
            THEN CallUnwindFrames(CallSetStatus(p0, t, "RUNNABLE", NULL), t, e)
            ELSE p0
      p3 == DispatchIfEmpty(p2, t, e)
  IN  IF p.thrown THEN p
      ELSE IF p.status[t] \notin {"RUNNING", "RUNNABLE", "ASYNC_WAITING"} THEN Throw(p0)
      ELSE IF p3.thrown THEN p3
      ELSE [p3 EXCEPT !.obs.unwound.after = Len(p3.stack[t]), !.obs.to = p3.status[t]]

\* JVMThread.throwException
ThrowException(p, t, e) ==
  LET p0 == [p EXCEPT !.obs.op = "throw", !.obs.thread = t,
                      !.obs.from = p.status[t],
                      !.obs.unwound.before = p.stack[t],
                      !.obs.unwound.exc = e,
                      !.obs.unwound.throws = @ + 1,
                      !.obs.unwound.resolved = p.loader.resolved]
      p1 == IF Len(p0.stack[t]) > 0 /\ Top(p0.stack[t]).type = "INTERNAL"
            THEN FramePop(p0, t) ELSE p0
      p2 == IF Len(p0.stack[t]) > 0
            THEN CallUnwindFrames(CallSetStatus(p1, t, "RUNNABLE", NULL), t, e)
            ELSE p0
      p3 == DispatchIfEmpty(p2, t, e)
  IN  IF p.thrown THEN p
      ELSE IF p.status[t] \notin {"RUNNING", "RUNNABLE", "ASYNC_WAITING"} THEN Throw(p0)
      ELSE IF p3.thrown THEN p3
      ELSE [p3 EXCEPT !.obs.unwound.after = Len(p3.stack[t]), !.obs.to = p3.status[t]]

\* The dispatcher: the operation a call names, on the call's arguments; q is
\* the state in which the call is made.
Call(p, c) ==
  CHOOSE r \in {
    CASE c.op = "SetStatus" -> SetStatus(q, c.t, c.newStatus, c.mon)
      [] c.op = "AsyncReturn" -> AsyncReturn(q, c.t, c.rv, c.rv2)
      [] c.op = "Exit" -> Exit(q, c.t)
      [] c.op = "Phase2" -> Phase2(q, c.t, c.m)
      [] c.op = "ThreadTerminated" -> ThreadTerminated(q, c.t)
      [] c.op = "MonitorEnter" -> MonitorEnter(q, c.m, c.t, c.cb)
      [] c.op = "MonitorExit" -> MonitorExit(q, c.m, c.t)
      [] c.op = "RunCallback" -> RunCallback(q, c.cb, c.t)
      [] c.op = "RunMethod" -> RunMethod(q, c.t, c.m)
      [] c.op = "Run" -> Run(q, c.t)
      [] c.op = "ThrowException" -> ThrowException(q, c.t, c.e)
      [] c.op = "UnwindFrames" -> UnwindFrames(q, c.t, c.e) : q \in {p}} : TRUE

\* The closure throwException of throwNewException: the exception object is
\* constructed and its <init>(Ljava/lang/String;)V is run on the thread, with
\* the callback that throws what the constructor threw, or else the object.
Construct(p, t, cls) ==
  CallRunMethod([p EXCEPT !.stack[t] = Append(@, [InternalStackFrame EXCEPT !.cb = cls])],
                t, "init")

\* A throwNewException that constructs without the class being initialized.
ThrowNewExceptionUnready(p, t, cls) ==
  Construct([p EXCEPT !.obs.thrownew = [thread |-> t, cls |-> cls,
                                        ready |-> cls \in p.loader.initialized,
                                        from |-> p.status[t], before |-> p.stack[t]],
                      !.hist.newCalls = @ + 1],
            t, cls)

\* JVMThread.throwNewException
ThrowNewException(p, t, cls) ==
  LET ready == cls \in p.loader.initialized
      p0 == [p EXCEPT !.obs.thrownew = [thread |-> t, cls |-> cls, ready |-> ready,
                                        from |-> p.status[t], before |-> p.stack[t]],
                      !.hist.newCalls = @ + 1]
      p1 == CallSetStatus(p0, t, "ASYNC_WAITING", NULL)
  IN  IF ready THEN Construct(p0, t, cls)
      ELSE IF p1.thrown THEN p1
      ELSE [p1 EXCEPT !.loader.inits =
                        @ \cup {[thread |-> t, cls |-> cls, call |-> p0.hist.newCalls]}]

(***************************************************************************)
(* The frames' run.                                                        *)
(***************************************************************************)
\* The statuses setStatus wants a monitor for.
MonitorStatuses == {"BLOCKED", "UNINTERRUPTABLY_BLOCKED", "WAITING", "TIMED_WAITING"}

\* JavaScript's truthiness of the modelled values (rv ? 1 : 0).
Truthy(v) == v \notin {"false", "0", UNDEFINED, JSNULL}

\* The native function of a native method: what it does to the thread and
\* the pool before it returns nb.rv.
NativeFunction(p, t, nb) ==
  CASE nb.kind = "ret" -> p
    [] nb.kind = "async" ->
         [CallSetStatus(p, t, "ASYNC_WAITING", NULL) EXCEPT !.ioPending = @ \cup {t}]
    [] nb.kind = "park" -> Park(p, t)
    [] nb.kind = "unpark" -> Unpark(p, nb.thread)
    [] nb.kind = "completelyUnpark" -> CompletelyUnpark(p, nb.thread)
    [] nb.kind = "halt" -> [p EXCEPT !.jvmShutdown = TRUE]
    [] nb.kind = "terminate" ->
         IF p.status[nb.thread] = "NEW"
         THEN CallSetStatus(p, nb.thread, "TERMINATED", NULL)
         ELSE p
    [] nb.kind = "throw" -> CallThrowException(p, t, "E")
    [] nb.kind = "throwNew" -> ThrowNewException(p, t, "UnsatisfiedLinkError")
    [] nb.kind = "request" ->
         Compared(p, CallSetStatus(p, t, nb.status,
                                   IF nb.status \in MonitorStatuses THEN SpareObj ELSE NULL))

\* NativeStackFrame.run. current is thread.currentMethod(): the top frame's
\* method, null on an empty stack; an internal frame on top has no stack trace
\* frame to read the method from. The frame is marked as run, and obs.native
\* keeps whether it was marked already and what the function leaves.
NativeRun(p, t, nb) ==
  LET d == Len(p.stack[t])
      method == Top(p.stack[t]).method
      rv == nb.rv
      Rest(p0) ==
        LET current == IF Len(p0.stack[t]) = 0 THEN JSNULL
                       ELSE IF Top(p0.stack[t]).type = "INTERNAL" THEN "TypeError"
                       ELSE Top(p0.stack[t]).method
            p1 == [p0 EXCEPT !.obs.native = [thread |-> t, method |-> method,
                                             again |-> p.stack[t][d].ran,
                                             status |-> p0.status[t], top |-> current]]
        IN  IF p1.thrown THEN p1
            ELSE IF p1.status[t] # "RUNNING" THEN p1
            ELSE IF current = "TypeError" THEN Throw(p1)
            ELSE IF current # method THEN p1
            ELSE CallAsyncReturn(p1, t,
                   IF MethodInfo(method).returnType = "Z"
                   THEN IF Truthy(rv) THEN "1" ELSE "0"
                   ELSE rv,
                   IF MethodInfo(method).returnType \in {"J", "D"}
                   THEN JSNULL ELSE UNDEFINED)
  IN  Rest(NativeFunction([p EXCEPT !.stack[t][d].ran = TRUE], t, nb))

\* The opcodes of the modelled methods (opcodes.LookupTable), run until one
\* sets returnToThreadLoop. b: the method an invoke calls, the object
\* MONITORENTER locks, and the branch IFEQ takes (it tests data the model does
\* not follow).
RECURSIVE ExecOpcodes(_, _, _)
ExecOpcodes(p, t, b) ==
  LET d == Len(p.stack[t])
      f == p.stack[t][d]
      op == MethodInfo(f.method).code[f.pc]
  IN  CASE op = "GOTO" ->
             ExecOpcodes([p EXCEPT !.stack[t][d].pc = 12], t, b)
        [] op = "IFEQ" ->
             ExecOpcodes([p EXCEPT !.stack[t][d].pc = IF b.branch THEN 0 ELSE f.pc + 3],
                         t, b)
        [] op = "POP" ->
             ExecOpcodes([p EXCEPT !.stack[t][d].pc = f.pc + 1,
                                   !.stack[t][d].stack = Pop(@)], t, b)
        [] op \in InvokeOps \cup InvokeInterfaceOps ->
             [p EXCEPT !.stack[t] = Append(@, IF MethodInfo(b.callee).native
                                              THEN NativeStackFrame(b.callee)
                                              ELSE BytecodeStackFrame(b.callee))]
        [] op = "RETURN" ->
             CallAsyncReturn(IF MethodInfo(f.method).sync
                             THEN CallMonitorExit(p, MethodLock(f.method), t)
                             ELSE p,
                             t, UNDEFINED, UNDEFINED)
        [] op = "MONITORENTER" ->
             LET p1 == CallMonitorEnter(p, b.obj, t, [kind |-> "pc", mon |-> b.obj, depth |-> d,
                                  method |-> f.method, pc |-> f.pc])
             IN  IF p1.thrown \/ ~p1.ret THEN p1
                 ELSE ExecOpcodes([p1 EXCEPT !.stack[t][d].pc = f.pc + 1], t, b)
        [] op = "MONITOREXIT" ->
             LET held == {m \in Objects : p.monOwner[m] = t}
                 p1 == IF held = {} THEN p
                       ELSE CallMonitorExit(p, CHOOSE m \in held : TRUE, t)
             IN  IF p1.thrown THEN p1
                 ELSE ExecOpcodes([p1 EXCEPT !.stack[t][d].pc = f.pc + 1], t, b)

\* A run that enters the method lock whatever the frame's flag says.
BytecodeRunReentering(p, t, b) ==
  LET d == Len(p.stack[t])
      f == p.stack[t][d]
  IN  IF MethodInfo(f.method).sync
      THEN LET p1 == CallMonitorEnter(p, MethodLock(f.method), t,
                                  [kind |-> "lock", mon |-> MethodLock(f.method), depth |-> d,
                                   method |-> f.method, pc |-> f.pc])
               p2 == [p1 EXCEPT !.stack[t][d].lockedMethodLock = p1.ret,
                                !.stack[t][d].acquired = IF p1.ret THEN @ + 1 ELSE @,
                                !.hist.reentered = @ \/ f.acquired >= 1]
           IN  IF p1.thrown THEN p1
               ELSE IF ~p1.ret
               THEN IF p2.status[t] # "BLOCKED" THEN Throw(p2) ELSE p2
               ELSE ExecOpcodes(p2, t, b)
      ELSE ExecOpcodes(p, t, b)

\* A run that goes on to the opcodes although the method lock was not
\* entered.
BytecodeRunUnlocked(p, t, b) ==
  LET d == Len(p.stack[t])
      f == p.stack[t][d]
      p0 == [p EXCEPT !.obs.entry = [thread |-> t, locked |-> f.lockedMethodLock,
                                     entered |-> FALSE, ret |-> FALSE,
                                     before |-> p.stack[t]]]
  IN  IF MethodInfo(f.method).sync /\ ~f.lockedMethodLock
      THEN LET Entered(p1) ==
                 LET p2 == [p1 EXCEPT !.stack[t][d].lockedMethodLock = p1.ret,
                                      !.stack[t][d].acquired = IF p1.ret THEN @ + 1 ELSE @,
                                      !.hist.reentered = @ \/ f.acquired >= 1,
                                      !.obs.entry.entered = TRUE,
                                      !.obs.entry.ret = p1.ret]
                 IN  IF p1.thrown THEN p1
                     ELSE ExecOpcodes(p2, t, b)
           IN  Entered(CallMonitorEnter(p0, MethodLock(f.method), t,
                                        [kind |-> "lock", mon |-> MethodLock(f.method),
                                         depth |-> d, method |-> f.method, pc |-> f.pc]))
      ELSE ExecOpcodes(p0, t, b)

\* BytecodeStackFrame.run. obs.entry keeps the stack the frame is run on, the
\* frame's flag, whether the method lock's enter was called and what it
\* returned.
BytecodeRun(p, t, b) ==
  LET d == Len(p.stack[t])
      f == p.stack[t][d]
      p0 == [p EXCEPT !.obs.entry = [thread |-> t, locked |-> f.lockedMethodLock,
                                     entered |-> FALSE, ret |-> FALSE,
                                     before |-> p.stack[t]]]
  IN  IF MethodInfo(f.method).sync /\ ~f.lockedMethodLock
      THEN LET Entered(p1) ==
                 LET p2 == [p1 EXCEPT !.stack[t][d].lockedMethodLock = p1.ret,
                                      !.stack[t][d].acquired = IF p1.ret THEN @ + 1 ELSE @,
                                      !.hist.reentered = @ \/ f.acquired >= 1,
                                      !.obs.entry.entered = TRUE,
                                      !.obs.entry.ret = p1.ret]
                 IN  IF p1.thrown THEN p1
                     ELSE IF ~p1.ret
                     THEN IF p2.status[t] # "BLOCKED" THEN Throw(p2) ELSE p2
                     ELSE ExecOpcodes(p2, t, b)
           IN  Entered(CallMonitorEnter(p0, MethodLock(f.method), t,
                                        [kind |-> "lock", mon |-> MethodLock(f.method),
                                         depth |-> d, method |-> f.method, pc |-> f.pc]))
      ELSE ExecOpcodes(p0, t, b)

\* A run that hands the callback (null, val) whatever the frame has recorded.
InternalRunResuming(p, t) ==
  LET f == Top(p.stack[t])
      Rest(p1) ==
        LET p2 == [p1 EXCEPT !.obs.called = [thread |-> t, cb |-> f.cb,
                                             isException |-> f.isException, val |-> f.val,
                                             times |-> @.times + 1, before |-> p.stack[t],
                                             depth |-> Len(p1.stack[t]),
                                             status |-> p1.status[t],
                                             args |-> <<JSNULL, f.val>>]]
        IN  IF p1.thrown THEN [p1 EXCEPT !.obs.called.thread = t]
            ELSE IF f.cb = "host" THEN p2
            ELSE CallThrowException([p2 EXCEPT !.hist.newThrows = @ + 1], t, f.cb)
  IN  Rest(CallSetStatus(FramePop(p, t), t, "ASYNC_WAITING", NULL))

\* InternalStackFrame.run; a callback of the host returns to host code, the
\* callback of throwNewException throws. obs.called keeps the stack the frame
\* is run on and, of the moment the callback is invoked, the stack's depth,
\* the thread's status and the callback's arguments.
InternalRun(p, t) ==
  LET f == Top(p.stack[t])
      Rest(p1) ==
        LET p2 == [p1 EXCEPT !.obs.called = [thread |-> t, cb |-> f.cb,
                                             isException |-> f.isException, val |-> f.val,
                                             times |-> @.times + 1, before |-> p.stack[t],
                                             depth |-> Len(p1.stack[t]),
                                             status |-> p1.status[t],
                                             args |-> IF f.isException THEN <<f.val>>
                                                      ELSE <<JSNULL, f.val>>]]
        IN  IF p1.thrown THEN [p1 EXCEPT !.obs.called.thread = t]
            ELSE IF f.cb = "host" THEN p2
            ELSE CallThrowException([p2 EXCEPT !.hist.newThrows = @ + 1], t,
                                    IF f.isException THEN f.val ELSE f.cb)
  IN  Rest(CallSetStatus(FramePop(p, t), t, "ASYNC_WAITING", NULL))

(***************************************************************************)
(* The initial state and the callbacks of the host.                        *)
(***************************************************************************)
ObsNone ==
  [op |-> "none", thread |-> NULL, from |-> "none", to |-> "none",
   request |-> "none", outcome |-> "none", countBefore |-> 0, countAfter |-> 0, resumes |-> 0,
   prevRun |-> NULL, others |-> {},
   done |-> [thread |-> NULL, value |-> "none", value2 |-> "none",
             type |-> "NONE", depth |-> 0, below |-> NoFrame,
             from |-> "none", to |-> "none", after |-> -1],
   quiet |-> FALSE, yielded |-> NULL, nested |-> FALSE,
   removed |-> [thread |-> NULL, remain |-> FALSE, shutdown |-> FALSE,
                scans |-> 0, exits |-> 0, empties |-> 0],
   unwound |-> [before |-> <<>>, resolved |-> {}, exc |-> "none", dispatches |-> 0,
                depth |-> -1, after |-> -1, throws |-> 0, asked |-> <<>>],
   thrownew |-> [thread |-> NULL, cls |-> "none", ready |-> FALSE, from |-> "none",
                 before |-> <<>>],
   called |-> [thread |-> NULL, cb |-> "none", isException |-> FALSE, val |-> "none",
               times |-> 0, before |-> <<>>, depth |-> -1, status |-> "none",
               args |-> <<>>],
   native |-> [thread |-> NULL, method |-> "none", again |-> FALSE, status |-> "none",
               top |-> "none"],
   entry |-> [thread |-> NULL, locked |-> FALSE, entered |-> FALSE, ret |-> FALSE,
              before |-> <<>>]]

\* What the environment of a specification does: the methods it starts, with
\* or without an internal frame beneath; the flags it gives new threads; what
\* its natives do; and the bound on numSamples.
PoolEnv ==
  [methods |-> {"main"}, internal |-> {FALSE}, daemon |-> {FALSE},
   immortal |-> BOOLEAN,
   kinds |-> {"ret", "async", "park", "unpark", "completelyUnpark", "halt"},
   maxSamples |-> MaxSamples, poolSize |-> PoolSize, branch |-> BOOLEAN,
   callees |-> {"natV"}, ests |-> {}, maxPending |-> MaxPending]

HistNone ==
  [lastRun |-> NULL, order |-> <<>>, track |-> FALSE, stray |-> FALSE,
   requests |-> 0, granted |-> {}, reentered |-> FALSE, emptied |-> {},
   newCalls |-> 0, newThrows |-> 0, newFailed |-> 0,
   passed |-> [t \in Threads |-> NULL],
   slot |-> [runs |-> 0, max |-> [num |-> InitialMaxMethodResumes, den |-> 1]],
   env |-> PoolEnv]

\* The state of the callback that starts now.
Begin == [Cur EXCEPT !.obs = ObsNone]

\* estMaxMethodResumes when the run took exactly responsiveness milliseconds:
\* Math.floor((maxMethodResumes / duration) * responsiveness).
SteadyEst == maxMethodResumes.num \div maxMethodResumes.den

\* The estimates the clock may lead to in this specification.
Estimates == IF hist.env.ests = {} THEN {SteadyEst} ELSE hist.env.ests


\* The state after the pool's construction.
Blank ==
  [threads |-> <<>>, runningThread |-> NULL, runningThreadIndex |-> -1,
   parkCounts |-> <<>>, created |-> {},
   status |-> [t \in Threads |-> "NEW"], stack |-> [t \in Threads |-> <<>>],
   monitor |-> [t \in Threads |-> NULL], immortal |-> [t \in Threads |-> FALSE],
   jvmThreadObj |-> [t \in Threads |-> t],
   threadStatus |-> [o \in Objects |-> "ZERO"], daemon |-> [o \in Objects |-> FALSE],
   monOwner |-> [o \in Objects |-> NULL], monCount |-> [o \in Objects |-> 0],
   monBlocked |-> [o \in Objects |-> {}],
   maxMethodResumes |-> Rat(InitialMaxMethodResumes, 1),
   methodResumesLeft |-> Rat(InitialMaxMethodResumes, 1), numSamples |-> 1,
   pending |-> <<>>, loop |-> NULL, jvmShutdown |-> FALSE, exitCalls |-> 0,
   emptyCalls |-> 0, ioPending |-> {},
   loader |-> [resolved |-> {}, failed |-> {}, requests |-> {},
               initialized |-> {}, inits |-> {}],
   obs |-> ObsNone, hist |-> HistNone,
   thrown |-> FALSE, ret |-> FALSE, pick |-> NULL, note |-> "none"]

\* The variables have the values of the state record p.
Install(p) ==
  /\ threads = p.threads
  /\ runningThread = p.runningThread
  /\ runningThreadIndex = p.runningThreadIndex
  /\ parkCounts = p.parkCounts
  /\ created = p.created
  /\ status = p.status
  /\ stack = p.stack
  /\ monitor = p.monitor
  /\ immortal = p.immortal
  /\ jvmThreadObj = p.jvmThreadObj
  /\ threadStatus = p.threadStatus
  /\ daemon = p.daemon
  /\ monOwner = p.monOwner
  /\ monCount = p.monCount
  /\ monBlocked = p.monBlocked
  /\ maxMethodResumes = p.maxMethodResumes
  /\ methodResumesLeft = p.methodResumesLeft
  /\ numSamples = p.numSamples
  /\ pending = p.pending
  /\ loop = p.loop
  /\ jvmShutdown = p.jvmShutdown
  /\ assertFailed = FALSE
  /\ exitCalls = p.exitCalls
  /\ emptyCalls = p.emptyCalls
  /\ ioPending = p.ioPending
  /\ loader = p.loader
  /\ obs = p.obs
  /\ hist = p.hist

Init == Install(Blank)

\* The bounds of the pool's specification, on the state a callback leaves.
Bounded(p) ==
  /\ Len(p.pending) <= p.hist.env.maxPending
  /\ p.methodResumesLeft.num >= -MaxDrift * p.methodResumesLeft.den
  /\ p.numSamples <= p.hist.env.maxSamples
  /\ p.exitCalls <= MaxCalls
  /\ p.emptyCalls <= MaxCalls
  /\ p.hist.newCalls <= MaxNewCalls
  /\ \A t \in Threads : Len(p.stack[t]) <= MaxDepth
  /\ \A r \in DOMAIN p.parkCounts :
       p.parkCounts[r] <= MaxParkCalls /\ -p.parkCounts[r] <= MaxParkCalls

\* The end of a callback of the pool's specification.
PoolCommit(p) == \E q \in {p} : Bounded(q) /\ Commit(q)

\* pool.newThread(threadObj): threads are constructed in the order of their
\* numbers; the first may be the immortal thread of the JVM's bootup.
NewThreadCall ==
  /\ loop = NULL
  /\ ~jvmShutdown
  /\ \E t \in (1 .. hist.env.poolSize) \ created, d \in hist.env.daemon,
        im \in hist.env.immortal :
       /\ \A u \in Threads : u < t => u \in created
       /\ im => t = 1
       /\ PoolCommit(NewThread([Begin EXCEPT !.daemon[t] = d, !.immortal[t] = im], t))

\* thread.runMethod, on a thread that is new or has terminated and whose
\* stack is empty; internal: the caller waits for the result with an
\* internal frame beneath the method's.
RunMethodCall ==
  /\ loop = NULL
  /\ ~jvmShutdown
  /\ \E t \in created, m \in hist.env.methods, internal \in hist.env.internal :
       /\ status[t] \in {"NEW", "TERMINATED"}
       /\ Len(stack[t]) = 0
       /\ PoolCommit(CallRunMethod(IF internal
                           THEN [Begin EXCEPT !.stack[t] = <<InternalStackFrame>>]
                           ELSE Begin, t, m))

\* The oldest setImmediate callback runs.
PendingCallback ==
  /\ loop = NULL
  /\ pending # <<>>
  /\ LET cb == Head(pending)
         p == [Begin EXCEPT !.pending = Tail(@)]
     IN  \E pk \in Threads :
           /\ (pk # 1) => \E o \in Objects : Cardinality(monBlocked[o]) > 1
           /\ PoolCommit(IF cb.kind = "scan"
                     THEN ScanCallback([p EXCEPT !.pick = pk])
                     ELSE CallSetStatus([p EXCEPT !.pick = pk], cb.thread, "RUNNABLE", NULL))

\* The values the callback of an asynchronous native hands to asyncReturn,
\* for the native's return type.
AsyncValues(m) ==
  CASE m = "natI" -> {<<"42", UNDEFINED>>}
    [] m = "natZ" -> {<<"1", UNDEFINED>>}
    [] m = "natJ" -> {<<"long7", JSNULL>>}
    [] OTHER -> {<<UNDEFINED, UNDEFINED>>}

\* The asynchronous operation of a native completes: thread.asyncReturn(rv),
\* or, where the natives report errors, thread.throwNewException.
AsyncCompletion ==
  /\ loop = NULL
  /\ \E t \in ioPending :
       \/ \E v \in AsyncValues(IF Len(stack[t]) > 0 THEN Top(stack[t]).method ELSE "none") :
            PoolCommit(CallAsyncReturn([Begin EXCEPT !.ioPending = @ \ {t}], t, v[1], v[2]))
       \/ /\ "throwNew" \in hist.env.kinds
          /\ PoolCommit(ThrowNewException([Begin EXCEPT !.ioPending = @ \ {t}], t,
                                          "IOException"))

\* thread.setJVMObject(obj), during bootstrapping: the first thread gets its
\* Thread object before it has run.
SetJVMObjectCall ==
  /\ loop = NULL
  /\ 1 \in created
  /\ jvmThreadObj[1] # SpareObj
  /\ status[1] \in {"NEW", "ASYNC_WAITING"}
  /\ PoolCommit(SetJVMObject(Begin, 1, SpareObj))

\* [JVM halt0 only] a thread that has never run is terminated.
Halt0Call ==
  /\ loop = NULL
  /\ \E t \in created :
       /\ status[t] = "NEW"
       /\ PoolCommit(CallSetStatus(Begin, t, "TERMINATED", NULL))

(***************************************************************************)
(* The execution loop, one frame per step.                                 *)
(***************************************************************************)
\* What the native functions of the modelled methods may do: return a value;
\* start an asynchronous operation (as FileDispatcherImpl.read0 does); park
\* the calling thread; unpark or completely unpark a thread; halt the JVM.
NativeBehaviours(m) ==
  CASE m = "natV" ->
         {[kind |-> k, rv |-> UNDEFINED, thread |-> NULL, status |-> "none"] :
            k \in {"ret", "async", "park", "throw", "throwNew"}}
         \cup {[kind |-> k, rv |-> UNDEFINED, thread |-> u, status |-> "none"] :
                 k \in {"unpark", "completelyUnpark", "terminate"}, u \in created}
         \cup {[kind |-> "request", rv |-> UNDEFINED, thread |-> NULL, status |-> st] :
                 st \in Statuses}
    [] m = "natI" ->
         {[kind |-> "ret", rv |-> v, thread |-> NULL, status |-> "none"] : v \in {"0", "42"}}
         \cup {[kind |-> "async", rv |-> UNDEFINED, thread |-> NULL, status |-> "none"]}
    [] m = "natZ" ->
         {[kind |-> "ret", rv |-> v, thread |-> NULL, status |-> "none"] :
            v \in {"true", "false"}}
         \cup {[kind |-> "async", rv |-> UNDEFINED, thread |-> NULL, status |-> "none"]}
    [] m = "natJ" ->
         {[kind |-> k, rv |-> IF k = "ret" THEN "long7" ELSE UNDEFINED, thread |-> NULL,
           status |-> "none"] : k \in {"ret", "async"}}
    [] m = "exit" ->
         {[kind |-> "halt", rv |-> UNDEFINED, thread |-> NULL, status |-> "none"]}
    [] OTHER -> {}

ParkCount(p, t) ==
  IF GetRef(p, t) \in DOMAIN p.parkCounts THEN p.parkCounts[GetRef(p, t)] ELSE 0

\* The observation of a native's call on thread u: the status and the park
\* count of u before (in p0) and after (in p1), and what became of the
\* status it asked for.
Observe(p0, p1, nb, u) ==
  [p1 EXCEPT !.obs = [@ EXCEPT !.op = nb.kind, !.thread = u,
                               !.from = p0.status[u], !.to = p1.status[u],
                               !.request = nb.status, !.outcome = p1.note,
                               !.countBefore = ParkCount(p0, u),
                               !.countAfter = ParkCount(p1, u)]]

NativeStep ==
  /\ loop # NULL
  /\ Top(stack[loop]).type = "NATIVE"
  /\ \E nb \in NativeBehaviours(Top(stack[loop]).method), pk \in Threads,
        est \in Estimates :
       /\ nb.kind \in hist.env.kinds
       /\ (pk # 1) => \E o \in Objects : Cardinality(monBlocked[o]) > 1
       /\ LET u == IF nb.thread = NULL THEN loop ELSE nb.thread
              p0 == [Begin EXCEPT !.pick = pk]
          IN  PoolCommit(AfterFrame(Observe(p0, NativeRun(p0, loop, nb), nb, u),
                                    loop, est))

BytecodeStep ==
  /\ loop # NULL
  /\ Top(stack[loop]).type = "BYTECODE"
  /\ \E br \in hist.env.branch, callee \in hist.env.callees, o \in created,
        pk \in Threads, est \in Estimates :
       /\ (pk # 1) => \E x \in Objects : Cardinality(monBlocked[x]) > 1
       /\ PoolCommit(AfterFrame(BytecodeRun([Begin EXCEPT !.pick = pk], loop,
                                            [callee |-> callee, obj |-> o, branch |-> br]),
                                loop, est))

InternalStep ==
  /\ loop # NULL
  /\ Top(stack[loop]).type = "INTERNAL"
  /\ \E est \in Estimates :
       PoolCommit(AfterFrame(InternalRun(Begin, loop), loop, est))

Next ==
  \/ NewThreadCall
  \/ RunMethodCall
  \/ PendingCallback
  \/ AsyncCompletion
  \/ Halt0Call
  \/ NativeStep
  \/ BytecodeStep

Spec == Init /\ [][Next]_vars

\* The specification of termination: threads run methods that lock a Java
\* object's monitor around a native call, with or without an internal frame
\* beneath, as daemon or immortal threads; natives return or start an
\* asynchronous operation; the first thread's Java object may be replaced.
ExitEnv ==
  [methods |-> {"main", "locker"}, internal |-> BOOLEAN, daemon |-> BOOLEAN,
   immortal |-> BOOLEAN, kinds |-> {"ret", "async", "halt"},
   maxSamples |-> MaxExitSamples, poolSize |-> PoolSize, branch |-> BOOLEAN,
   callees |-> {"natV"}, ests |-> {}, maxPending |-> MaxPending]

InitExit == Install([Blank EXCEPT !.hist = [@ EXCEPT !.env = ExitEnv]])

NextExit ==
  \/ NewThreadCall
  \/ RunMethodCall
  \/ PendingCallback
  \/ AsyncCompletion
  \/ SetJVMObjectCall
  \/ NativeStep
  \/ BytecodeStep
  \/ InternalStep

SpecExit == InitExit /\ [][NextExit]_vars

\* The specification of setStatus: one thread in any of the statuses, immortal
\* or not, as the program leaves a thread of that status: waiting in a native
\* frame above the method that invoked it, or about to run, or without frames.
StatusEnv ==
  [methods |-> {"main"}, internal |-> {FALSE}, daemon |-> {FALSE},
   immortal |-> BOOLEAN, kinds |-> {"ret", "async", "request"},
   maxSamples |-> MaxSamples, poolSize |-> 1, branch |-> BOOLEAN,
   callees |-> {"natV"}, ests |-> {}, maxPending |-> MaxPending]

InStatus(st, im) ==
  LET frames == CASE st \in {"NEW", "TERMINATED"} -> <<>>
                  [] st = "RUNNABLE" -> <<BytecodeStackFrame("main")>>
                  [] OTHER -> <<BytecodeStackFrame("main"), NativeStackFrame("natV")>>
  IN  [Blank EXCEPT
         !.created = {1},
         !.threads = IF st = "TERMINATED" THEN <<>> ELSE <<1>>,
         !.status[1] = st,
         !.threadStatus[1] = IF st = "NEW" THEN "ZERO" ELSE JVMTIProjection(st),
         !.immortal[1] = im,
         !.stack[1] = frames,
         !.monitor[1] = IF st \in MonitorStatuses THEN SpareObj ELSE NULL,
         !.parkCounts = IF st = "PARKED" THEN (1 :> 1) ELSE <<>>,
         !.ioPending = IF st = "ASYNC_WAITING" THEN {1} ELSE {},
         !.pending = IF st = "RUNNABLE" THEN <<[kind |-> "scan", thread |-> NULL]>> ELSE <<>>,
         !.runningThread = IF st = "RUNNING" THEN 1 ELSE NULL,
         !.runningThreadIndex = IF st = "RUNNING" THEN 0 ELSE -1,
         !.loop = IF st = "RUNNING" THEN 1 ELSE NULL,
         !.hist = [@ EXCEPT !.env = StatusEnv,
                            !.passed[1] = IF st \in MonitorStatuses THEN SpareObj ELSE NULL]]

InitStatus ==
  \E st \in Statuses, im \in BOOLEAN :
    /\ ~(im /\ st = "TERMINATED")
    /\ Install(InStatus(st, im))

\* The callback's start, the request counted.
Asked == [Begin EXCEPT !.hist = [@ EXCEPT !.requests = @ + 1]]

\* A component calls thread.setStatus(st, monitor) from a callback of its own,
\* with the monitor of the thread's Java object where a monitor is wanted;
\* RUNNING is asked for as the scheduler's callback asks, the thread made the
\* pool's running thread first.
StatusRequest ==
  /\ loop = NULL
  /\ hist.requests < MaxRequests
  /\ \E t \in created, st \in Statuses :
       /\ (st = "RUNNING") => runningThread = NULL
       /\ LET p0 == IF st = "RUNNING"
                    THEN [Asked EXCEPT !.runningThread = t,
                                       !.runningThreadIndex = IndexOf(threads, t)]
                    ELSE Asked
              nb == [kind |-> "setStatus", rv |-> UNDEFINED, thread |-> t, status |-> st]
              p1 == CallSetStatus(p0, t, st,
                                  IF st \in MonitorStatuses THEN jvmThreadObj[t] ELSE NULL)
          IN  PoolCommit(Observe(Begin, Compared(p0, p1), nb, t))

NextStatus ==
  \/ StatusRequest
  \/ PendingCallback
  \/ AsyncCompletion
  \/ NativeStep
  \/ BytecodeStep

SpecStatus == InitStatus /\ [][NextStatus]_vars

\* The specification of the round robin: k threads that have each been given
\* a method that calls natives for ever; nothing happens but the scans, the
\* frames and the yields; the clock's estimates vary.
RREnv ==
  [methods |-> {"main"}, internal |-> {FALSE}, daemon |-> {FALSE},
   immortal |-> {FALSE}, kinds |-> {"ret"}, maxSamples |-> MaxRounds,
   poolSize |-> NumThreads, branch |-> {TRUE}, callees |-> {"natV"},
   ests |-> {1, 2}, maxPending |-> MaxRRPending]

\* The state after newThread and runMethod for each of the threads 1 .. k.
AllRunnable(k) ==
  [Blank EXCEPT
     !.created = 1 .. k,
     !.threads = [i \in 1 .. k |-> i],
     !.status = [t \in Threads |-> IF t <= k THEN "RUNNABLE" ELSE "NEW"],
     !.threadStatus = [o \in Objects |-> IF o <= k THEN "RUNNABLE" ELSE "ZERO"],
     !.stack = [t \in Threads |-> IF t <= k THEN <<BytecodeStackFrame("main")>> ELSE <<>>],
     !.pending = [i \in 1 .. k |-> [kind |-> "scan", thread |-> NULL]],
     !.hist = [@ EXCEPT !.env = RREnv, !.track = TRUE]]

\* The state in which thread 1, picked by the first scan, has started the
\* threads 2 .. k from a native (Thread.start) and runs on: no scan was
\* deferred for them, for a thread was running.
StartedByFirst(k) ==
  [AllRunnable(k) EXCEPT
     !.status[1] = "RUNNING",
     !.runningThread = 1,
     !.runningThreadIndex = 0,
     !.loop = 1,
     !.pending = <<>>,
     !.hist = [@ EXCEPT !.lastRun = 1, !.order = <<1>>]]

InitRR ==
  \E k \in 2 .. NumThreads :
    Install(AllRunnable(k)) \/ Install(StartedByFirst(k))

NextRR ==
  \/ PendingCallback
  \/ NativeStep
  \/ BytecodeStep

SpecRR == InitRR /\ [][NextRR]_vars

\* The specification of parking: park and unpark calls on one thread, which
\* starts in any of the statuses, with nothing between them but the frames of
\* the thread while it runs: its natives make the calls then, callbacks of
\* the host make them while it does not run.
ParkEnv ==
  [methods |-> {"main"}, internal |-> {FALSE}, daemon |-> {FALSE},
   immortal |-> {FALSE}, kinds |-> {"ret", "park", "unpark"},
   maxSamples |-> MaxSamples, poolSize |-> 1, branch |-> {TRUE},
   callees |-> {"natV"}, ests |-> {}, maxPending |-> MaxPending]

\* The countdown has settled at ParkSlice frames for a slice.
InitPark ==
  \E st \in Statuses :
    Install([InStatus(st, FALSE) EXCEPT
               !.maxMethodResumes = Rat(ParkSlice, 1),
               !.methodResumesLeft = Rat(ParkSlice, 1),
               !.hist = [@ EXCEPT !.env = ParkEnv]])

\* A park that the table of transitions does not provide for: of a thread
\* that neither runs nor is parked, at a count that is not negative.
Stray(p, t) ==
  IF p.status[t] \notin {"RUNNING", "PARKED"} /\ ParkCount(p, t) >= 0
  THEN [p EXCEPT !.hist = [@ EXCEPT !.stray = TRUE]]
  ELSE p

\* pool.park(thread) called from a callback of the host.
ParkCall ==
  /\ loop = NULL
  /\ \E t \in created :
       LET nb == [kind |-> "park", rv |-> UNDEFINED, thread |-> t, status |-> "none"]
           p0 == Stray(Begin, t)
       IN  PoolCommit(Observe(p0, Park(p0, t), nb, t))

\* pool.unpark(thread) called from a callback of the host.
UnparkCall ==
  /\ loop = NULL
  /\ \E t \in created :
       LET nb == [kind |-> "unpark", rv |-> UNDEFINED, thread |-> t, status |-> "none"]
       IN  PoolCommit(Observe(Begin, Unpark(Begin, t), nb, t))

NextPark ==
  \/ ParkCall
  \/ UnparkCall
  \/ NativeStep
  \/ BytecodeStep

SpecPark == InitPark /\ [][NextPark]_vars

\* The specification of returns: one thread has been given a method whose four
\* invokes call natives of every return type; the natives return at once or
\* start an operation that completes later.
FramesEnv ==
  [methods |-> {"caller"}, internal |-> {FALSE}, daemon |-> {FALSE},
   immortal |-> {FALSE}, kinds |-> {"ret", "async", "halt"},
   maxSamples |-> MaxFrameSamples, poolSize |-> 1, branch |-> {TRUE},
   callees |-> {"natV", "natI", "natZ", "natJ"}, ests |-> {},
   maxPending |-> MaxPending]

InitFrames ==
  Install([AllRunnable(1) EXCEPT
             !.stack[1] = <<BytecodeStackFrame("caller")>>,
             !.hist = [@ EXCEPT !.env = FramesEnv, !.track = FALSE]])

NextFrames ==
  \/ PendingCallback
  \/ AsyncCompletion
  \/ NativeStep
  \/ BytecodeStep

SpecFrames == InitFrames /\ [][NextFrames]_vars

\* The specification of unwinding: a thread runs methods that invoke natives
\* and methods with and without handlers, synchronized or not, with or
\* without an internal frame beneath; natives return, start an asynchronous
\* operation or throw an exception of class E; the host throws one at a
\* thread that does not run, and the loader answers the resolutions asked of
\* it.
UnwindEnv ==
  [methods |-> {"outer", "syncM", "catchAny"}, internal |-> BOOLEAN,
   daemon |-> {FALSE}, immortal |-> {FALSE}, kinds |-> {"ret", "async", "throw"},
   maxSamples |-> MaxUnwindSamples, poolSize |-> 1, branch |-> {TRUE},
   callees |-> {"natV", "outer", "syncM", "lateCatch", "catchE", "catchF"},
   ests |-> {}, maxPending |-> MaxPending]

InitUnwind == Install([Blank EXCEPT !.hist = [@ EXCEPT !.env = UnwindEnv]])

\* thread.throwException(e) from a callback of the host, on a thread that
\* waits for an asynchronous operation (which thereby fails) or for its turn.
ThrowCall ==
  /\ loop = NULL
  /\ \E t \in created, pk \in Threads :
       /\ status[t] \in {"RUNNABLE", "ASYNC_WAITING"}
       /\ (pk # 1) => \E o \in Objects : Cardinality(monBlocked[o]) > 1
       /\ PoolCommit(CallThrowException([Begin EXCEPT !.ioPending = @ \ {t}, !.pick = pk],
                                    t, "E"))

\* The callback of resolveClasses: with the classes, which are resolved now,
\* the exception is thrown again; with null nothing is done, and the loader
\* keeps for which method which classes it failed to resolve.
ResolveDone ==
  /\ loop = NULL
  /\ \E r \in loader.requests, ok \in BOOLEAN, pk \in Threads :
       /\ (pk # 1) => \E o \in Objects : Cardinality(monBlocked[o]) > 1
       /\ LET p == [Begin EXCEPT !.loader.requests = @ \ {r}, !.pick = pk]
          IN  PoolCommit(IF ok
                         THEN CallThrowException([p EXCEPT !.loader.resolved = @ \cup r.classes,
                                                           !.obs.request = "resolved"],
                                             r.thread, r.exc)
                         ELSE [p EXCEPT !.loader.failed =
                                          @ \cup {<<r.method, c>> : c \in r.classes}])

NextUnwind ==
  \/ NewThreadCall
  \/ RunMethodCall
  \/ PendingCallback
  \/ AsyncCompletion
  \/ ThrowCall
  \/ ResolveDone
  \/ NativeStep
  \/ BytecodeStep
  \/ InternalStep

SpecUnwind == InitUnwind /\ [][NextUnwind]_vars

\* The specification of synchronized methods: threads run a synchronized
\* method that invokes a native, which returns or starts an asynchronous
\* operation, so that a thread meets the method lock held by another.
SyncEnv ==
  [methods |-> {"syncM"}, internal |-> {FALSE}, daemon |-> {FALSE},
   immortal |-> {FALSE}, kinds |-> {"ret", "async"},
   maxSamples |-> MaxSamples, poolSize |-> PoolSize, branch |-> {TRUE},
   callees |-> {"natV"}, ests |-> {}, maxPending |-> MaxSyncPending]

InitSync == Install([Blank EXCEPT !.hist = [@ EXCEPT !.env = SyncEnv]])

NextSync ==
  \/ NewThreadCall
  \/ RunMethodCall
  \/ PendingCallback
  \/ AsyncCompletion
  \/ NativeStep
  \/ BytecodeStep

SpecSync == InitSync /\ [][NextSync]_vars

\* The specification of the shutdown: thread 1 is the only thread that is not
\* a daemon; it and up to PoolSize - 1 daemon threads have each been given a
\* method that calls one native and returns. The host runs every callback it
\* has queued and completes every operation it has started.
ShutdownEnv ==
  [methods |-> {"main"}, internal |-> {FALSE}, daemon |-> {TRUE},
   immortal |-> {FALSE}, kinds |-> {"ret", "async", "halt"},
   maxSamples |-> MaxShutdownSamples, poolSize |-> PoolSize, branch |-> {FALSE},
   callees |-> {"natV"}, ests |-> {}, maxPending |-> MaxPending]

InitShutdown ==
  \E k \in 1 .. PoolSize :
    Install([AllRunnable(k) EXCEPT
               !.daemon = [o \in Objects |-> o \in 2 .. k],
               !.hist = [@ EXCEPT !.env = ShutdownEnv, !.track = FALSE]])

NextShutdown ==
  \/ PendingCallback
  \/ AsyncCompletion
  \/ NativeStep
  \/ BytecodeStep

\* The host's event loop runs the callbacks queued with setImmediate and the
\* callbacks of the operations that complete; an execution loop, which is
\* synchronous, runs its frames until it returns.
FairShutdown ==
  /\ WF_vars(PendingCallback)
  /\ WF_vars(AsyncCompletion)
  /\ []<>(loop = NULL)

SpecShutdown == InitShutdown /\ [][NextShutdown]_vars /\ FairShutdown

\* The specification of uncaught exceptions: thread 1 has been given a method
\* that invokes a native, or the native itself, and up to PoolSize - 1 other
\* threads a method that calls one native and returns; a native returns,
\* starts an asynchronous operation or throws an exception of class E, which
\* no frame handles. The host is that of the shutdown.
UncaughtEnv ==
  [methods |-> {"main"}, internal |-> {FALSE}, daemon |-> {FALSE},
   immortal |-> {FALSE}, kinds |-> {"ret", "async", "throw", "halt"},
   maxSamples |-> MaxShutdownSamples, poolSize |-> PoolSize, branch |-> {FALSE},
   callees |-> {"natV"}, ests |-> {}, maxPending |-> MaxPending]

InitUncaught ==
  \E k \in 1 .. PoolSize, first \in {"outer", "natV"} :
    Install([AllRunnable(k) EXCEPT
               !.stack[1] = IF MethodInfo(first).native
                            THEN <<NativeStackFrame(first)>>
                            ELSE <<BytecodeStackFrame(first)>>,
               !.hist = [@ EXCEPT !.env = UncaughtEnv, !.track = FALSE]])

SpecUncaught == InitUncaught /\ [][NextShutdown]_vars /\ FairShutdown

\* The specification of throwNewException: a thread is given a native, or a
\* method that invokes one; a native returns, starts an asynchronous operation
\* that completes or fails, throws an exception of class E, or is a stub that
\* throws a new UnsatisfiedLinkError; the host throws E on a thread that
\* waits. The exception classes are initialized from the start or on request;
\* a constructor invokes a native.
InitThrowNew ==
  \E ready \in SUBSET {"UnsatisfiedLinkError", "IOException"} :
    Install([Blank EXCEPT
               !.loader.initialized = ready,
               !.hist = [@ EXCEPT !.env =
                 [methods |-> {"outer", "natV"}, internal |-> {FALSE}, daemon |-> {FALSE},
                  immortal |-> {FALSE}, kinds |-> {"ret", "async", "throw", "throwNew"},
                  maxSamples |-> MaxUnwindSamples, poolSize |-> 1, branch |-> {TRUE},
                  callees |-> {"natV"}, ests |-> {}, maxPending |-> MaxPending]]])

\* The callback of initializeClass: with the class data the exception is
\* constructed; with null nothing is done.
InitDone ==
  /\ loop = NULL
  /\ \E r \in loader.inits, ok \in BOOLEAN :
       LET p == [Begin EXCEPT !.loader.inits = @ \ {r}, !.obs.op = "initialized",
                              !.obs.thread = r.thread, !.obs.request = r.cls,
                              !.obs.from = status[r.thread],
                              !.obs.thrownew.before = stack[r.thread]]
       IN  PoolCommit(IF ok
                      THEN Construct([p EXCEPT !.loader.initialized = @ \cup {r.cls}],
                                     r.thread, r.cls)
                      ELSE [p EXCEPT !.hist.newFailed = @ + 1, !.obs.op = "uninitialized"])

NextThrowNew ==
  \/ NewThreadCall
  \/ RunMethodCall
  \/ PendingCallback
  \/ AsyncCompletion
  \/ ThrowCall
  \/ InitDone
  \/ NativeStep
  \/ BytecodeStep
  \/ InternalStep

SpecThrowNew == InitThrowNew /\ [][NextThrowNew]_vars

\* The specification of handler selection: a thread waits for its turn with
\* a frame of the method drawn on top of a frame of outer; the method's
\* exception handler table is any table of up to MaxHandlers handlers over
\* the method's pcs, the frame's pc and operand stack are any, every catch
\* type is resolved, and the host throws exceptions of class E on the thread.
InitHandlers ==
  \E n \in 0 .. MaxHandlers, pc \in {0, 3, 6}, os \in {<<>>, <<"x">>} :
    \E table \in [1 .. n -> {h \in [startPC : {0, 3}, endPC : {3, 6}, handlerPC : {6, 7},
                                     catchType : {"<any>", "E", "F"}] :
                               h.startPC < h.endPC}] :
      Install([AllRunnable(1) EXCEPT
                 !.stack[1] = <<BytecodeStackFrame("outer"),
                                [BytecodeStackFrame("drawn") EXCEPT !.pc = pc, !.stack = os]>>,
                 !.loader.resolved = {"E", "F"},
                 !.hist = [@ EXCEPT !.env = ("table" :> table) @@ UnwindEnv,
                                    !.track = FALSE]])

SpecHandlers == InitHandlers /\ [][ThrowCall]_vars

(***************************************************************************)
(* Properties.                                                             *)
(***************************************************************************)
RunningThreads == {t \in created : status[t] = "RUNNING"}

\* C1: in every reachable state at most one thread has status RUNNING.
AtMostOneRunning == Cardinality(RunningThreads) <= 1

\* A thread runs while another thread is RUNNABLE and a scan is waiting.
AtMostOneRunningWitness ==
  \E t \in created, u \in created :
    /\ status[t] = "RUNNING" /\ status[u] = "RUNNABLE"
    /\ \E i \in 1 .. Len(pending) : pending[i].kind = "scan"

\* C2: a thread has status RUNNING if and only if it is the pool's running
\* thread.
RunningIffRunningThread ==
  \A t \in created : (status[t] = "RUNNING") <=> (runningThread = t)

\* C4: the threadStatus field of a thread's Java object is the JVMTI projection
\* of the thread's status.
ThreadStatusIsProjection ==
  \A t \in created : threadStatus[jvmThreadObj[t]] = JVMTIProjection(status[t])

\* C6: a scan picks the thread that ran most recently only when no other
\* thread of the list is RUNNABLE.
JustRunIsLastInLine ==
  (obs.op = "scan" /\ obs.thread = obs.prevRun) => obs.others = {}

\* C8: a PARKED thread has a park count above zero.
ParkedHasPositiveCount ==
  \A t \in created : status[t] = "PARKED" => IsParked(Cur, t)

\* A thread has just parked itself, and another thread has been unparked down
\* to a negative count.
ParkedHasPositiveCountWitness ==
  \E t \in created, u \in created :
    /\ status[t] = "PARKED" /\ ParkCount(Cur, t) = 1
    /\ obs.op = "park" /\ obs.thread = t
    /\ ParkCount(Cur, u) < 0

\* C9: park called at a negative count increments the count and leaves the
\* thread's status as it was, not PARKED.
EarlyUnparkCancelsPark ==
  (obs.op = "park" /\ obs.countBefore < 0) =>
     /\ obs.countAfter = obs.countBefore + 1
     /\ obs.to = obs.from
     /\ obs.to # "PARKED"

\* Two unparks, then the park: the count is -1 and the thread is not parked.
EarlyUnparkCancelsParkWitness ==
  /\ obs.op = "park" /\ obs.countBefore = -2 /\ obs.countAfter = -1
  /\ status[obs.thread] # "PARKED"

\* The request setStatus last had, and whether it refused it.
Requested == obs.op \in {"setStatus", "request"}
Permitted == <<obs.from, obs.request>> \in ValidTransitions
Excused ==
  \/ obs.from = obs.request
  \/ immortal[obs.thread] /\ obs.request = "TERMINATED"

\* C3 as stated: setStatus(s') on a thread of status s succeeds exactly when
\* (s, s') is in the table of permitted transitions, and is rejected otherwise.
SucceedsIffPermitted ==
  Requested => ((obs.outcome # "rejected") <=> Permitted)

\* C3: a request for another status than the thread has, other than TERMINATED
\* asked of an immortal thread, succeeds exactly when the pair is in the table
\* and is rejected otherwise; a request for the status the thread has, and
\* TERMINATED asked of an immortal thread, is ignored without an error.
SucceedsIffPermittedOrExcused ==
  Requested =>
    /\ ~Excused => ((obs.outcome # "rejected") <=> Permitted)
    /\ ~Excused /\ ~Permitted => (obs.outcome = "rejected" /\ obs.to = obs.from)
    /\ Excused => (obs.outcome = "ignored" /\ obs.to = obs.from)

\* A permitted request is applied, a request outside the table is rejected
\* earlier on, and a request for the status the thread has is ignored.
SucceedsIffPermittedOrExcusedWitness ==
  /\ Requested /\ obs.from = "PARKED" /\ obs.request = "RUNNABLE"
  /\ obs.outcome = "applied" /\ ~assertFailed

\* The threads of the slots i .. i + k - 1 of the picks kept.
Slots(i, k) == {hist.order[j] : j \in i .. i + k - 1}

\* C5: of k threads that are always runnable, every k consecutive slots go to
\* k different threads; with two threads, three slots go A, B, A or B, A, B.
RoundRobinFair ==
  LET k == Cardinality(created)
  IN  \A i \in 1 .. Len(hist.order) - k + 1 : Slots(i, k) = created

\* Three threads have had three slots and the rounds go on.
RoundRobinFairWitness ==
  /\ Cardinality(created) = NumThreads
  /\ Len(hist.order) = NumThreads
  /\ hist.order[1] = 2 /\ hist.order[NumThreads] = 1

\* C7 as stated: after a park or an unpark the thread is RUNNABLE when its
\* count is zero or less and PARKED when it is more, whatever the order of the
\* calls.
ParkBalance ==
  obs.op \in {"park", "unpark"} =>
    obs.to = IF obs.countAfter <= 0 THEN "RUNNABLE" ELSE "PARKED"

\* C7: after a park or an unpark, in a sequence whose parks were all of a
\* thread that ran or was parked or had a negative count, the thread is PARKED
\* exactly when its count is above zero, whatever the order of the calls.
ParkedIffPositive ==
  (obs.op \in {"park", "unpark"} /\ ~hist.stray) =>
    (obs.to = "PARKED" <=> obs.countAfter > 0)

\* The unpark that balances the park of a thread that parked itself.
ParkedIffPositiveWitness ==
  /\ obs.op = "unpark" /\ ~hist.stray
  /\ methodResumesLeft # maxMethodResumes
  /\ obs.from = "PARKED" /\ obs.to = "RUNNABLE" /\ obs.countAfter = 0

\* The completion of a native frame above a bytecode frame, the frame now and
\* what asyncReturn had pushed for its values.
NativeCompleted == obs.done.type = "NATIVE" /\ obs.done.below.type = "BYTECODE"
Resumed == Top(stack[obs.done.thread])
Pushed ==
  (IF obs.done.value # UNDEFINED THEN <<obs.done.value>> ELSE <<>>)
    \o (IF obs.done.value2 # UNDEFINED THEN <<obs.done.value2>> ELSE <<>>)
Advance ==
  IF MethodInfo(obs.done.below.method).code[obs.done.below.pc] \in InvokeInterfaceOps
  THEN 5 ELSE 3
PoppedAndResumedOnce ==
  /\ Len(stack[obs.done.thread]) = obs.done.depth - 1
  /\ obs.resumes = 1
  /\ Resumed.method = obs.done.below.method
  /\ Resumed.pc = obs.done.below.pc + Advance

\* C10 as stated: the completion of a native frame pops it and resumes the
\* frame beneath once; a bytecode frame beneath is 5 further after an
\* invokeinterface and 3 further after another invoke, with the value on top of
\* its operand stack.
ReturnRoundTrip ==
  NativeCompleted =>
    /\ PoppedAndResumedOnce
    /\ obs.done.value # UNDEFINED =>
         (Resumed.stack # <<>> /\ Top(Resumed.stack) = obs.done.value)

\* C10: as above, with the value on top of the operand stack or, for a long
\* or a double, directly beneath the null that fills its second slot, and
\* nothing pushed for a void return.
ReturnRoundTripTwoSlots ==
  NativeCompleted =>
    /\ PoppedAndResumedOnce
    /\ Resumed.stack = obs.done.below.stack \o Pushed

\* The invoke at pc 12 is resumed at 15 with the 42 its native returned.
ReturnRoundTripTwoSlotsWitness ==
  /\ NativeCompleted /\ obs.op = "ret"
  /\ obs.done.below.pc = 12 /\ Resumed.pc = 15
  /\ obs.done.value = "42"
  /\ Resumed.stack # <<>> /\ Top(Resumed.stack) = obs.done.value

\* The frames throwException consults on the stack it met: all but an
\* internal frame on top.
Consulted ==
  IF obs.unwound.before # <<>> /\ Top(obs.unwound.before).type = "INTERNAL"
  THEN Pop(obs.unwound.before) ELSE obs.unwound.before
\* Every frame consulted declines: it is a native frame, or a bytecode frame
\* whose table has no handler for the exception at its pc.
AllDecline ==
  \A i \in 1 .. Len(Consulted) :
    \/ Consulted[i].type = "NATIVE"
    \/ /\ Consulted[i].type = "BYTECODE"
       /\ FindHandler(ExceptionHandlers(Consulted[i].method), 1, Consulted[i].pc,
                      "E", obs.unwound.resolved).kind = "none"
ValidThrow ==
  obs.op = "throw" /\ obs.from \in {"RUNNING", "RUNNABLE", "ASYNC_WAITING"}

\* C11: when throwException is called and every frame declines the exception,
\* the stack is emptied and the exception is dispatched as uncaught exactly
\* once, on the empty stack.
UnwindingExhaustive ==
  (ValidThrow /\ AllDecline) =>
    (obs.unwound.dispatches = 1 /\ obs.unwound.depth = 0)

\* An exception thrown through three frames that all decline it.
UnwindingExhaustiveWitness ==
  /\ ValidThrow /\ AllDecline /\ Len(obs.unwound.before) >= 3
  /\ \E i \in 1 .. Len(obs.unwound.before) : obs.unwound.before[i].method = "syncM"
  /\ obs.unwound.dispatches = 1 /\ ~assertFailed

\* The frames of a thread that hold their method lock, and the entries the
\* thread has made of the method lock's monitor.
LockedFrames(t) ==
  {i \in 1 .. Len(stack[t]) : stack[t][i].lockedMethodLock}
MethodLockEntries(t) ==
  IF monOwner[MethodLock("syncM")] = t THEN monCount[MethodLock("syncM")] ELSE 0

\* C12: a synchronized frame acquires its method lock at most once, also
\* when its first entry blocked and the monitor granted the lock later: no
\* frame that had acquired its method lock has called enter again, no frame
\* has acquired it more than once, and a frame whose flag is set is a frame
\* of a synchronized method that acquired it exactly once.
MethodLockEnteredOnce ==
  /\ ~hist.reentered
  /\ \A t \in created :
       /\ \A i \in 1 .. Len(stack[t]) : stack[t][i].acquired <= 1
       /\ \A i \in LockedFrames(t) :
            MethodInfo(stack[t][i].method).sync /\ stack[t][i].acquired = 1

\* A thread whose entry blocked and was granted later has run its frame
\* again: the native the frame invoked is on top, and the lock is entered once.
MethodLockEnteredOnceWitness ==
  \E t \in hist.granted :
    /\ status[t] = "RUNNING" /\ Len(stack[t]) = 2
    /\ stack[t][1].method = "syncM" /\ stack[t][1].lockedMethodLock
    /\ stack[t][1].acquired = 1 /\ stack[t][2].type = "NATIVE"
    /\ MethodLockEntries(t) = 1 /\ ~assertFailed

\* C13: setStatus(TERMINATED) on an immortal thread changes nothing, whatever
\* the thread's status: the statuses, the threadStatus fields, the monitor
\* references, the stacks, the pool's list and running thread, the callbacks
\* queued, the monitors and the calls of exit and of the empty callback are as
\* before; and no immortal thread is TERMINATED.
ImmortalNeverTerminated ==
  /\ (Requested /\ obs.request = "TERMINATED" /\ immortal[obs.thread]) =>
       (obs.quiet /\ obs.outcome = "ignored")
  /\ \A t \in created :
       immortal[t] =>
         (status[t] # "TERMINATED" /\ threadStatus[jvmThreadObj[t]] # "TERMINATED")

\* TERMINATED asked of an immortal thread that is blocked on a monitor.
ImmortalNeverTerminatedWitness ==
  /\ obs.op = "setStatus" /\ obs.request = "TERMINATED" /\ immortal[obs.thread]
  /\ obs.from = "BLOCKED" /\ status[obs.thread] = "BLOCKED"
  /\ monitor[obs.thread] # NULL /\ obs.quiet

\* C14: the pool does not invoke the empty callback while an immortal thread
\* is in its list, whatever that thread's status and daemon flag.
NoEmptyCallbackWithImmortal ==
  emptyCalls > 0 => \A i \in 1 .. Len(threads) : ~immortal[threads[i]]

\* C15: the shutdown sequence of the only thread that is not a daemon: once
\* its stack has emptied System.exit(0) comes to be invoked, on that thread
\* and never a second time; once the JVM has reported shutdown the thread
\* comes to be TERMINATED with the empty callback invoked, and the empty
\* callback is never invoked a second time.
ShutdownSequence ==
  /\ [](exitCalls <= 1 /\ emptyCalls <= 1)
  /\ []((exitCalls = 1 /\ ~jvmShutdown) =>
          (stack[1] # <<>> /\ stack[1][1].method = "exit"))
  /\ (stack[1] = <<>>) ~> (exitCalls = 1)
  /\ jvmShutdown ~> (status[1] = "TERMINATED" /\ emptyCalls = 1)

\* C16: whenever threadTerminated has removed a thread from the list, the
\* accounting is done, whether or not the thread was the running thread: a
\* scan is deferred if a thread that is not a daemon and neither NEW nor
\* TERMINATED remains; otherwise System.exit(0) is invoked if the JVM has not
\* reported shutdown, and the empty callback if it has.
TerminationAccounted ==
  obs.removed.thread # NULL =>
    IF obs.removed.remain THEN Scans(Cur) > obs.removed.scans
    ELSE IF ~obs.removed.shutdown THEN exitCalls = obs.removed.exits + 1
    ELSE emptyCalls = obs.removed.empties + 1

\* The step makes a thread RUNNING only as the callback of a scan that was
\* queued before the step, with no execution loop active.
EntersByScan ==
  \A t \in Threads :
    (status'[t] = "RUNNING" /\ status[t] # "RUNNING") =>
      /\ loop = NULL
      /\ pending # <<>> /\ Head(pending).kind = "scan"
      /\ obs'.op = "scan" /\ obs'.thread = t

\* C17: a thread becomes RUNNING only in the callback of a scan deferred by an
\* earlier callback; a thread that has yielded for responsiveness is not
\* RUNNABLE or RUNNING again when the callback in which it yielded ends; and
\* run() is never called while an execution loop is active.
HostTickBoundary ==
  /\ [][EntersByScan]_vars
  /\ [](obs.yielded # NULL => status[obs.yielded] \notin {"RUNNABLE", "RUNNING"})
  /\ [](~obs.nested)

\* A thread has yielded while another thread is RUNNABLE: the latter runs
\* only after the scan that is queued.
HostTickBoundaryWitness ==
  /\ obs.yielded # NULL /\ status[obs.yielded] = "ASYNC_WAITING" /\ loop = NULL
  /\ \E i \in 1 .. Len(pending) : pending[i] = [kind |-> "yield", thread |-> obs.yielded]
  /\ \E i \in 1 .. Len(pending) : pending[i].kind = "scan"
  /\ \E u \in created : status[u] = "RUNNABLE"
  /\ ~assertFailed

\* C18: in every slot the countdown stands at maxMethodResumes less the
\* number of frames run, a thread is not RUNNING in its loop once that many
\* frames have run, and so no slot runs more than maxMethodResumes frames;
\* maxMethodResumes is the value the slot started with.
ResponsivenessYield ==
  /\ hist.slot.runs * hist.slot.max.den <= hist.slot.max.num
  /\ loop # NULL => hist.slot.runs * hist.slot.max.den < hist.slot.max.num
  /\ (loop # NULL /\ methodResumesLeft.num >= 0) =>
       methodResumesLeft.num * hist.slot.max.den =
         (hist.slot.max.num - hist.slot.runs * hist.slot.max.den) * methodResumesLeft.den

\* C19: in every reachable state a thread whose status is RUNNING has a call
\* stack that is not empty.
RunningHasFrames ==
  \A t \in created : status[t] = "RUNNING" => stack[t] # <<>>

\* C20: in every reachable state a thread that is BLOCKED,
\* UNINTERRUPTABLY_BLOCKED, WAITING or TIMED_WAITING has a monitor reference
\* that is not null and is the monitor handed over with the transition into
\* that status, and a thread of any other status has a null monitor reference.
MonitorBlockMatchesStatus ==
  \A t \in created :
    IF status[t] \in MonitorStatuses
    THEN monitor[t] # NULL /\ monitor[t] = hist.passed[t]
    ELSE monitor[t] = NULL

\* A thread that waited on one monitor has been moved to
\* UNINTERRUPTABLY_BLOCKED with another, and a request for a status it already
\* has was made with a third since.
MonitorBlockMatchesStatusWitness ==
  /\ obs.op = "setStatus" /\ obs.from = "WAITING" /\ obs.to = "UNINTERRUPTABLY_BLOCKED"
  /\ status[obs.thread] = "UNINTERRUPTABLY_BLOCKED"
  /\ monitor[obs.thread] = jvmThreadObj[obs.thread]
  /\ monitor[obs.thread] # SpareObj
  /\ ~assertFailed

\* An exception has just left thread t without a frame: it was dispatched as
\* uncaught.
Uncaught(t) ==
  obs.op = "throw" /\ obs.thread = t /\ obs.unwound.dispatches = 1

NoRetryOfFailedResolution ==
  \A r \in loader.requests :
    \A c \in r.classes : <<r.method, c>> \notin loader.failed

\* What a frame throwException consults answers to the exception thrown: a
\* native frame declines; a bytecode frame answers as the walk of its table
\* ends; an internal frame takes the exception.
Answer(f) ==
  CASE f.type = "NATIVE" -> [kind |-> "none", handlerPC |-> 0]
    [] f.type = "BYTECODE" ->
         FindHandler(ExceptionHandlers(f.method), 1, f.pc, obs.unwound.exc,
                     obs.unwound.resolved)
    [] OTHER -> [kind |-> "internal", handlerPC |-> 0]
\* The depth of the first frame consulted, from the top, that does not
\* decline, or 0; the frame, and what it answers.
StopIndex ==
  LET stops == {i \in 1 .. Len(Consulted) : Answer(Consulted[i]).kind # "none"}
  IN  IF stops = {} THEN 0 ELSE CHOOSE i \in stops : \A j \in stops : j <= i
StopFrame == IF StopIndex = 0 THEN NoFrame ELSE Consulted[StopIndex]
StopAnswer == Answer(StopFrame)
\* The exception the loader throws again after resolving the classes.
Rethrown == ValidThrow /\ obs.request = "resolved"

\* C23: when throwException comes to a frame with an in-range handler whose
\* catch type is not resolved, the thread is ASYNC_WAITING afterwards, the
\* frame is on top of the stack as it was (not popped, nothing below it
\* consulted), resolution is asked for and nothing is dispatched as uncaught;
\* and when the loader throws the exception again after resolving and the
\* frame's handler matches, the frame is on top with the exception alone on
\* its operand stack and its pc at the handler's handlerPC.
AsyncHandlerResolution ==
  /\ (ValidThrow /\ StopAnswer.kind = "async") =>
       /\ status[obs.thread] = "ASYNC_WAITING"
       /\ stack[obs.thread] = SubSeq(obs.unwound.before, 1, StopIndex)
       /\ obs.unwound.dispatches = 0
       /\ \E r \in loader.requests :
            /\ r.thread = obs.thread /\ r.exc = obs.unwound.exc
            /\ r.method = StopFrame.method
  /\ (Rethrown /\ StopAnswer.kind = "handler") =>
       /\ Len(stack[obs.thread]) = StopIndex
       /\ Top(stack[obs.thread]) =
            [StopFrame EXCEPT !.stack = <<obs.unwound.exc>>,
                              !.pc = StopAnswer.handlerPC]

\* The exception a native threw through a frame of catchE, thrown again by
\* the loader while the thread waited, is caught by that frame.
AsyncHandlerResolutionWitness ==
  /\ Rethrown /\ obs.from = "ASYNC_WAITING" /\ StopAnswer.kind = "handler"
  /\ StopIndex = Len(obs.unwound.before) /\ StopIndex >= 2
  /\ StopFrame.method = "catchE" /\ StopFrame.pc = 0
  /\ Top(stack[obs.thread]).pc = 6 /\ Top(stack[obs.thread]).stack = <<"E">>
  /\ ~assertFailed

\* C24: an asyncReturn on a thread that is RUNNING, RUNNABLE or ASYNC_WAITING
\* pops one frame and leaves the thread RUNNABLE, or RUNNING if it was; when
\* the pop leaves the stack of a RUNNING thread empty, the thread is
\* terminated before the callback ends, and when it leaves the stack of
\* another thread empty, the scan that picks the thread terminates it within
\* its callback: in both cases the execution loop runs no frame of it.
Terminated(t) == obs.removed.thread = t /\ status[t] # "RUNNING" /\ loop # t
AsyncReturnPopsOne ==
  /\ [](obs.done.thread # NULL =>
          /\ obs.done.after = obs.done.depth - 1
          /\ obs.done.to = IF obs.done.from = "RUNNING" THEN "RUNNING" ELSE "RUNNABLE")
  /\ []((obs.done.after = 0 /\ obs.done.from = "RUNNING") => Terminated(obs.done.thread))
  /\ [][\A t \in hist.emptied :
          (obs'.op = "scan" /\ obs'.thread = t /\ stack[t] = <<>>) => Terminated(t)']_vars

\* C25: throwNewException constructs the exception at once when its class is
\* initialized, and otherwise leaves the thread ASYNC_WAITING with the
\* initialization requested and constructs in the initialization's callback;
\* the constructor's callback throws one exception on the thread, what the
\* constructor threw if it failed and the new exception if not; and no call
\* leads to more than one such throw.
Constructing(t, cls) ==
  /\ stack[t] = obs.thrownew.before \o <<[InternalStackFrame EXCEPT !.cb = cls],
                                          BytecodeStackFrame("init")>>
  /\ obs.unwound.throws = 0
ConstructorFrames ==
  {<<t, i>> \in Threads \X (1 .. MaxDepth + 1) :
     /\ i <= Len(stack[t])
     /\ stack[t][i].type = "INTERNAL"
     /\ stack[t][i].cb # "host"}
Delivered == obs.done.thread # NULL /\ obs.done.thread = obs.native.thread
NativeCompletesOnce ==
  obs.native.thread # NULL =>
    /\ ~obs.native.again
    /\ Delivered <=> (obs.native.status = "RUNNING" /\ obs.native.top = obs.native.method)
    /\ Delivered => (obs.unwound.throws = 0 /\ obs.thrownew.thread = NULL
                     /\ obs.done.type = "NATIVE")
    /\ obs.op \in {"throw", "throwNew", "async"} => ~Delivered

\* C27: in throwException an internal frame on top of the stack is popped
\* unasked, so that the unwinding ends beneath it: at the first frame below
\* that does not decline, or with the stack emptied and the exception
\* dispatched as uncaught; and an internal frame that the unwinding comes to
\* deeper in the stack stops it: it is left on top with the exception
\* recorded, the frames below it are as they were, and nothing is dispatched
\* as uncaught.
TopInternal ==
  obs.unwound.before # <<>> /\ Top(obs.unwound.before).type = "INTERNAL"
InternalFramesInUnwinding ==
  /\ (ValidThrow /\ TopInternal) =>
       /\ StopIndex < Len(obs.unwound.before)
       /\ IF StopIndex = 0
          THEN obs.unwound.dispatches = 1 /\ obs.unwound.depth = 0
          ELSE Len(stack[obs.thread]) = StopIndex
  /\ (ValidThrow /\ StopIndex > 0 /\ StopFrame.type = "INTERNAL") =>
       /\ stack[obs.thread] =
            [SubSeq(obs.unwound.before, 1, StopIndex) EXCEPT
               ![StopIndex] = [StopFrame EXCEPT !.isException = TRUE,
                                                !.val = obs.unwound.exc]]
       /\ obs.unwound.dispatches = 0

\* An exception thrown through two frames that decline it to an internal
\* frame that lies above another frame.
InternalFramesInUnwindingWitness ==
  /\ ValidThrow
  /\ StopFrame.type = "INTERNAL"
  /\ StopIndex >= 2
  /\ Len(obs.unwound.before) >= StopIndex + 2
  /\ ~TopInternal
  /\ ~assertFailed

\* C28: the run of an internal frame invokes the frame's callback once, after
\* the frame has been popped and the thread made ASYNC_WAITING, with the
\* outcome the frame holds: the exception alone if an exception was recorded
\* last, null and the value if a value was; the frame is off the stack
\* afterwards, so that it cannot be run again.
InternalRunCallsBack ==
  obs.called.thread # NULL =>
    /\ obs.called.times = 1
    /\ obs.called.before # <<>>
    /\ Top(obs.called.before).type = "INTERNAL"
    /\ obs.called.depth = Len(obs.called.before) - 1
    /\ obs.called.status = "ASYNC_WAITING"
    /\ obs.called.args = IF Top(obs.called.before).isException
                         THEN <<Top(obs.called.before).val>>
                         ELSE <<JSNULL, Top(obs.called.before).val>>
    /\ obs.called.cb = "host" => stack[obs.called.thread] = Pop(obs.called.before)

\* The callback of a method the host has run is handed the exception that
\* was thrown on the thread and that the method's frame declined.
InternalRunCallsBackWitness ==
  /\ obs.called.cb = "host"
  /\ obs.called.args = <<"E">>
  /\ obs.called.times = 1
  /\ Len(obs.called.before) = 1
  /\ ~assertFailed

\* C29: with every catch type of the table resolved, scheduleException of a
\* bytecode frame takes the first handler, in table order, whose range holds
\* the frame's pc and whose catch type is the any-marker or a class the
\* exception can be cast to: it answers true and leaves the frame with the
\* exception alone on its operand stack and its pc at the handler's
\* handlerPC; with no such handler it answers false and leaves the frame as
\* it was.
Applies(eh, pc, ecls) ==
  /\ eh.startPC <= pc
  /\ pc < eh.endPC
  /\ eh.catchType = "<any>" \/ IsCastable(ecls, eh.catchType)
FirstApplying(hs, pc, ecls) ==
  LET ms == {i \in 1 .. Len(hs) : Applies(hs[i], pc, ecls)}
  IN  IF ms = {} THEN 0 ELSE CHOOSE i \in ms : \A j \in ms : i <= j
HandlerSelection ==
  \A n \in 1 .. Len(obs.unwound.asked) :
    LET a == obs.unwound.asked[n]
        hs == ExceptionHandlers(a.before.method)
        k == FirstApplying(hs, a.before.pc, obs.unwound.exc)
    IN  HandlerClasses(hs) \subseteq obs.unwound.resolved =>
          IF k = 0
          THEN ~a.ret /\ a.after = a.before
          ELSE /\ a.ret
               /\ a.after = [a.before EXCEPT !.stack = <<obs.unwound.exc>>,
                                             !.pc = hs[k].handlerPC]

\* A table of two handlers that both apply, the second being the any-marker:
\* the frame, whose operand stack held a value, is left at the first
\* handler's handlerPC.
HandlerSelectionWitness ==
  /\ Len(obs.unwound.asked) = 1
  /\ LET a == obs.unwound.asked[1]
         hs == ExceptionHandlers(a.before.method)
     IN  /\ a.before.method = "drawn"
         /\ a.before.stack = <<"x">>
         /\ Len(hs) = 2
         /\ hs[1].catchType = "E" /\ hs[2].catchType = "<any>"
         /\ Applies(hs[1], a.before.pc, "E") /\ Applies(hs[2], a.before.pc, "E")
         /\ hs[1].handlerPC # hs[2].handlerPC
         /\ a.ret
         /\ a.after.pc = hs[1].handlerPC
         /\ a.after.stack = <<"E">>

\* C30: when the run of a synchronized bytecode frame calls its method
\* lock's enter and enter does not succeed, the run leaves the thread's
\* frames as they were (no opcode is executed, the flag stays false) and the
\* thread BLOCKED; when the monitor later grants the lock to the frame, the
\* thread goes from BLOCKED to RUNNABLE with the frame's flag set; and a frame
\* that has acquired its method lock is run with the flag set, without
\* another enter, and executes.
EntryBlocks ==
  (obs.entry.thread # NULL /\ obs.entry.entered /\ ~obs.entry.ret) =>
    /\ stack[obs.entry.thread] = obs.entry.before
    /\ ~Top(obs.entry.before).lockedMethodLock
    /\ status[obs.entry.thread] = "BLOCKED"
GrantUnblocks ==
  \A t \in hist.granted' \ hist.granted :
    /\ status[t] = "BLOCKED"
    /\ status'[t] = "RUNNABLE"
    /\ stack'[t] = [stack[t] EXCEPT ![Len(stack[t])].lockedMethodLock = TRUE,
                                    ![Len(stack[t])].acquired = 1]
AcquiredRuns ==
  (obs.entry.thread # NULL /\ Top(obs.entry.before).acquired >= 1) =>
    /\ obs.entry.locked
    /\ ~obs.entry.entered
    /\ stack[obs.entry.thread] # obs.entry.before
BlockedEntryResumes ==
  /\ []EntryBlocks
  /\ [][GrantUnblocks]_vars
  /\ []AcquiredRuns

\* A thread whose entry blocked and was granted later has run its frame from
\* pc 0 with the flag set: the frame has invoked its native.
BlockedEntryResumesWitness ==
  /\ obs.entry.thread \in hist.granted
  /\ obs.entry.locked
  /\ ~obs.entry.entered
  /\ Len(obs.entry.before) = 1
  /\ Top(obs.entry.before).method = "syncM"
  /\ Top(obs.entry.before).pc = 0
  /\ Len(stack[obs.entry.thread]) = 2
  /\ ~assertFailed

\* C31: setStatus asked for RUNNABLE of a RUNNING thread, and setStatus asked
\* for the status the thread has, is ignored and changes nothing: the
\* statuses, the monitor references, the stacks, the pool's list, its running
\* thread and index, the callbacks queued (the pool has scheduled no scan),
\* the park counts and the monitors are as before the call.
Redundant ==
  \/ obs.request = obs.from
  \/ obs.from = "RUNNING" /\ obs.request = "RUNNABLE"
RedundantRequestIgnored ==
  (Requested /\ Redundant) => (obs.quiet /\ obs.outcome = "ignored")

\* A running thread's native has asked for RUNNABLE: the thread has gone on
\* running and the callbacks queued are those of before.
RedundantRequestIgnoredWitness ==
  /\ obs.op = "request" /\ obs.request = "RUNNABLE" /\ obs.from = "RUNNING"
  /\ obs.quiet /\ obs.outcome = "ignored"
  /\ runningThread = obs.thread
  /\ ~assertFailed

\* The core specification with the host's event loop running the callbacks
\* queued and every execution loop returning.
SpecWakeup == Spec /\ FairShutdown

\* C32: no wakeup is lost. Until the empty callback has been invoked, whenever
\* the pool has no running thread and a thread is RUNNABLE, a scan of the
\* scheduler is among the callbacks queued, and the pool comes to have a
\* running thread (or no thread is RUNNABLE any more); a scan that finds no
\* thread RUNNABLE leaves the pool without a running thread, the statuses
\* and the stacks as they were, and queues nothing.
ScanPending == \E i \in 1 .. Len(pending) : pending[i].kind = "scan"
SomeRunnable == \E t \in created : status[t] = "RUNNABLE"
Wakeup == emptyCalls = 0 /\ runningThread = NULL /\ SomeRunnable
IdleScan ==
  /\ loop = NULL /\ pending # <<>> /\ Head(pending).kind = "scan"
  /\ pending' = Tail(pending)
  /\ runningThread = NULL /\ ~SomeRunnable
NoLostWakeup ==
  /\ [](Wakeup => ScanPending)
  /\ Wakeup ~> (runningThread # NULL \/ ~SomeRunnable \/ emptyCalls > 0)
  /\ [][IdleScan => (runningThread' = NULL /\ status' = status /\ stack' = stack
                     /\ threads' = threads)]_vars

\* A second thread made RUNNABLE while the first runs is made the running
\* thread by the scan that the first thread's suspension has queued.
NoLostWakeupWitness ==
  /\ obs.op = "scan" /\ obs.thread = 2
  /\ runningThread = 2 /\ status[2] = "RUNNING"
  /\ status[1] \in {"ASYNC_WAITING", "PARKED"}
  /\ emptyCalls = 0 /\ ~assertFailed

\* C33: when the execution loop of a thread returns, without an error thrown,
\* the thread is not RUNNING any more, whether the thread is immortal or not,
\* so that no thread is RUNNING without an execution loop.
LoopReturns(t) == loop = t /\ loop' = NULL /\ ~assertFailed'
LoopEndsNotRunning ==
  [][\A t \in created : LoopReturns(t) => status'[t] # "RUNNING"]_vars

\* C34: unpark and completelyUnpark called on a thread that is NEW,
\* ASYNC_WAITING, BLOCKED, UNINTERRUPTABLY_BLOCKED, WAITING, TIMED_WAITING or
\* TERMINATED leave the thread's status as it was.
UnparkOnlyParked ==
  (/\ obs.op \in {"unpark", "completelyUnpark"}
   /\ obs.from \in {"NEW", "ASYNC_WAITING", "BLOCKED", "UNINTERRUPTABLY_BLOCKED",
                    "WAITING", "TIMED_WAITING", "TERMINATED"}) =>
    (obs.to = obs.from /\ status[obs.thread] = obs.from)

\* C35: a terminating thread whose exit finds the monitor of its Java object
\* held by another thread is blocked on that monitor by a transition that is
\* permitted: while its phase2 waits for the monitor the thread is BLOCKED
\* with that monitor as its monitor reference, and no error has been thrown;
\* and a thread that is TERMINATED is out of the pool's list.
ExitWaits(t, m) ==
  \E e \in monBlocked[m] : e.thread = t /\ e.cb.kind = "phase2"
BlockedExitCompletes ==
  /\ \A t \in created, m \in Objects :
       ExitWaits(t, m) => (status[t] = "BLOCKED" /\ monitor[t] = m /\ ~assertFailed)
  /\ \A t \in created :
       (status[t] = "TERMINATED" /\ ~assertFailed) =>
         \A i \in 1 .. Len(threads) : threads[i] # t

\* C36: in unwinding, a frame of a synchronized method that declines the
\* exception, and so exits its method lock, had acquired the lock: its flag
\* was set and its one entry had succeeded, also when the exception comes to
\* the frame before the frame has run.
UnwindExitsMatchEntries ==
  \A i \in 1 .. Len(obs.unwound.asked) :
    LET a == obs.unwound.asked[i]
    IN  (~a.ret /\ MethodInfo(a.before.method).sync) =>
          (a.before.lockedMethodLock /\ a.before.acquired = 1)

\* The specification of removals: up to NumThreads threads, of which a
\* running thread's native terminates those that have never been run (halt0),
\* the host gives methods to new and to terminated threads, and the natives
\* suspend and complete; the countdown has settled at ParkSlice frames for a
\* slice.
SpecRemoval ==
  /\ Install([Blank EXCEPT
                !.maxMethodResumes = Rat(ParkSlice, 1),
                !.methodResumesLeft = Rat(ParkSlice, 1),
                !.hist = [@ EXCEPT !.env =
                  [methods |-> {"main"}, internal |-> {FALSE}, daemon |-> {FALSE},
                   immortal |-> {FALSE}, kinds |-> {"ret", "async", "terminate"},
                   maxSamples |-> MaxSamples, poolSize |-> NumThreads,
                   branch |-> {TRUE}, callees |-> {"natV"}, ests |-> {},
                   maxPending |-> MaxPending]]])
  /\ [][Next]_vars

\* C37: in every reachable state the running index is at least -1 and, when
\* the pool has a running thread, is the position of that thread in the
\* pool's list (positions counted from 0).
RunningIndexConsistent ==
  /\ runningThreadIndex >= -1
  /\ runningThread # NULL =>
       /\ runningThreadIndex < Len(threads)
       /\ runningThreadIndex >= 0
       /\ threads[runningThreadIndex + 1] = runningThread

\* A resurrected thread runs at the end of the list, and the thread before it
\* in the list has just been terminated and removed by its native.
RunningIndexConsistentWitness ==
  /\ runningThread = 1 /\ loop = 1
  /\ obs.removed.thread = 2 /\ status[2] = "TERMINATED"
  /\ threads = <<3, 1>> /\ runningThreadIndex = 1
  /\ ~assertFailed

\* C38: in every reachable state the pool's list holds no thread twice and
\* holds a thread exactly if the thread is not TERMINATED (also while a
\* thread's exit waits for its monitor); a step that terminates a thread takes
\* exactly that thread's one entry out of the list, and a step that takes a
\* thread out of TERMINATED appends it to the list, so that every scan that
\* is scheduled for it finds it there.
InList(t) == \E i \in 1 .. Len(threads) : threads[i] = t
Occurrences(s, t) == Cardinality({i \in 1 .. Len(s) : s[i] = t})
Terminates(t) == status[t] # "TERMINATED" /\ status'[t] = "TERMINATED"
Resurrects(t) == status[t] = "TERMINATED" /\ status'[t] # "TERMINATED"
ListHoldsLiveThreads ==
  /\ [](\A t \in created : Occurrences(threads, t) = (IF status[t] = "TERMINATED" THEN 0 ELSE 1))
  /\ [](\A i \in 1 .. Len(threads) : threads[i] \in created)
  /\ [][\A t \in created :
          /\ Terminates(t) =>
                \E i \in 1 .. Len(threads) :
                   threads[i] = t /\ threads' = Splice(threads, i - 1)
          /\ Resurrects(t) => threads' = Append(threads, t)]_vars

\* A thread that had terminated has been given a method again and stands
\* after the thread that was created after it, while a third thread has
\* terminated and is out of the list.
ListHoldsLiveThreadsWitness ==
  /\ created = {1, 2, 3}
  /\ threads = <<2, 1>>
  /\ status[1] # "TERMINATED" /\ status[2] # "TERMINATED"
  /\ status[3] = "TERMINATED"
  /\ ~assertFailed

============================================================================
